---- MODULE Spec2Model ----
(***************************************************************************)
(* iso-video: the editor store (zustand), the playback hook and the        *)
(* time-to-scene resolvers of the preview and of the export modal.         *)
(*                                                                         *)
(* Times and durations are integer milliseconds, as in the source.  Ids    *)
(* are naturals standing for the `scene-<time>-<n>` / `screen-<time>`      *)
(* strings; 0 stands for null / undefined.  Sequences are 1-based, so the  *)
(* zero-based index i of the source is position i + 1 here; operators      *)
(* that return an index return the source's zero-based value.              *)
(***************************************************************************)
EXTENDS Integers, Sequences, FiniteSets, TLC

\* ------------------------------------------------------------------ bounds
MaxScenes == 2
MaxScreens == 2
MaxFiles == 2
MaxTime == 6000
MaxExportScenes == 3
MaxPreviewScenes == 2
MaxZTimers == 1
MaxLayerScenes == 3
MaxTimestamp == 3500
MaxClock == 1200
MaxExports == 2

\* ------------------------------------------------------- program constants
NULL == 0
DEFAULT_SCENE_DURATION == 3000
TRANSITION_DURATION == 300
GIF_MAX_FPS == 15
DEFAULT_ENTRY_DURATION == 500
DEFAULT_EXIT_DURATION == 500

\* --------------------------------------------------------- input alphabets
\* screenId handed to addScene that names no screen of the project
MissingScreenId == MaxScreens + 1
ScreenIds == 1..MaxScreens
SceneIds == 1..MaxScenes
\* arguments of updateSceneDuration / setBaseDuration (any number is accepted)
DurationArgs == {0, 2000}
BaseDurationArgs == {0, 3000}
\* arguments of seek (any number is accepted)
SeekTimes == {0, 2500}
\* the scenes handed to exportScenesAsVideo: an image that loads or one that
\* does not, and a duration shorter than a frame or longer than a transition
\* window
ExportImages == {"ok.png", "broken.png"}
ExportDurations == {20, 400}
ExportSceneLists ==
  UNION {[1..n -> [imageUrl : ExportImages, duration : ExportDurations]] :
           n \in 0..MaxExportScenes}
ExportFormats == {"webm", "mp4", "gif"}
ExportFps == {30, 60}
\* progress values an encoder reports (ffmpeg 'progress', gif.js 'progress'),
\* in halves: 0, 0.5, 1
EncoderProgress == {0, 1, 2}
\* milliseconds between two animation frames
FrameDeltas == {500, 1000}
\* the times the resolvers are evaluated at: before the start, on and around
\* scene boundaries, past the end of every timeline the bounds allow
ResolveTimes == {-500, 0, 1, 1999, 2000, 2500, 2999, 3000, 3899, 3900, 5000,
                 5999, 6000, 6300, 9000}
\* a screen's <<imageUrl, thumbnail>>: both present, or neither
ScreenImages == {<<"img", "thumb">>, <<"", "">>}
\* the styles the style picker is exercised with
StyleIds == {"product-hunt", "social"}
\* the captured page the capture service hands over: sections in detection
\* order, not sorted by vertical position
ThePage == [sections |-> << [id |-> 1, type |-> "cta", y |-> 1800],
                            [id |-> 2, type |-> "hero", y |-> 0] >>]
NoPage == [sections |-> << >>]

VARIABLES
  screens,            \* project.screens
  scenes,             \* project.scenes
  selectedSceneId,    \* store.selectedSceneId (NULL = null)
  isPlaying,          \* store.isPlaying
  currentTime,        \* store.currentTime
  lastOp,             \* the last store action that wrote project.screens / project.scenes
  \* usePlayback()
  currentTimeRef,     \* currentTimeRef.current
  totalDurationRef,   \* totalDurationRef.current
  isPlayingRef,       \* isPlayingRef.current
  projectRef,         \* projectRef.current.scenes
  lastTimeRef,        \* lastTimeRef.current: 0, or 1 for the previous frame's timestamp
  frameRequested,     \* a requestAnimationFrame(animate) callback is outstanding
  effectsPending,     \* a render was committed whose passive effects have not run yet
  tick,               \* the comparison the last animate() call made
  \* lib/video-export.ts
  export,             \* the exportScenesAsVideo call in progress (or the last one)
  ffmpeg,             \* the module's FFmpeg singleton: ffmpegLoaded, ffmpegLoading, its files
  \* components/editor/export-modal.tsx
  modal,              \* one ExportModal: its settings, what it shows, its handleExport call
  convert,            \* for each mounted ExportModal, the MP4 export its handleExport runs
  \* the camera
  zSpacing,           \* project.settings.globalCamera.zSpacing
  zDepth,             \* scene id -> the zDepth stored in that scene
  zTimers,            \* pending setTimeout(calculateSceneZDepths, 50) callbacks
  preview,            \* the camera preview: the scenes' cameras, the position, both camera states
  layers,             \* the layer stack CameraSceneRenderer renders: its props and each layer's depth metrics
  mounted,            \* for each component that calls usePlayback(), that instance's refs
  animationFrame,     \* the animation frame the browser is running, or the last one it ran
  transition,         \* usePlayback's transitionState, previousSceneIdRef and its pending end-of-transition timers
  handlers            \* the 'progress' handlers registered on the transcoding engine, and the exports they belong to

storeVars == <<screens, scenes, selectedSceneId, isPlaying, currentTime>>
hookVars == <<currentTimeRef, totalDurationRef, isPlayingRef, projectRef,
              lastTimeRef, frameRequested, effectsPending, tick>>
exportVars == <<export, ffmpeg>>
modalVars == <<modal, convert>>
cameraVars == <<zSpacing, zDepth, zTimers, preview>>
viewVars == <<layers, mounted, animationFrame, transition, handlers>>
vars == <<storeVars, lastOp, hookVars, exportVars, modalVars, cameraVars, viewVars>>

\* what `undefined` / `null` is where a screen or a scene is expected
NoScreen == [id |-> NULL, imageUrl |-> "", thumbnail |-> ""]
NoScene == [id |-> NULL, screenId |-> NULL, duration |-> 0, order |-> 0,
            motion |-> [entryDuration |-> 0, exitDuration |-> 0]]

\* no export was started: every field of an export at its initial value
NoExport ==
  [stage |-> "idle", scenes |-> << >>, format |-> "webm", fps |-> 30, vp9 |-> TRUE,
   created |-> {}, loadsStarted |-> 0, images |-> 0, recorder |-> "none",
   currentTime |-> 0, currentSceneIndex |-> 0, sceneStartTime |-> 0,
   frames |-> << >>, yields |-> 0, progress |-> << >>, encoderProgress |-> -1,
   error |-> "none", failedAt |-> "none", blob |-> "none"]

\* let ffmpegInstance = null; let ffmpegLoaded = false; let ffmpegLoading = null
\* instances counts the `new FFmpeg()` calls, loads the calls of the loading
\* function
NoFFmpeg == [loaded |-> FALSE, loading |-> "none", files |-> {},
             instances |-> 0, loads |-> 0]

\* the components of the editor page that call usePlayback()
Components == {"Canvas", "Timeline"}
\* the timestamp of the page's last animation frame before the editor is used
FirstTimestamp == 1000

\* the refs a mounted usePlayback() starts with; requested: its
\* requestAnimationFrame(animate) callback is outstanding
NewHook ==
  [currentTimeRef |-> 0, totalDurationRef |-> 0, isPlayingRef |-> FALSE,
   projectRef |-> << >>, lastTimeRef |-> 0, requested |-> FALSE]

\* no animate() call has computed a newTime yet. newTime is what the call
\* computed, total the sum of the store's scene durations at that moment,
\* stopped whether the call sought to 0, paused and requested no frame
NoTime == [ran |-> FALSE, newTime |-> 0, total |-> 0, stopped |-> FALSE]

\* no animation frame has run: the time origin is FirstTimestamp ms back
NoFrame ==
  [ran |-> FALSE, timestamp |-> FirstTimestamp, callbacks |-> {},
   playing |-> FALSE, startTime |-> 0, elapsed |-> 0, continued |-> FALSE,
   tick |-> NoTime]

\* the components that mount an ExportModal: SceneList and Timeline
Modals == {"scene-list", "timeline"}

\* no export was started from a modal, no handler is registered on the
\* engine, no handler was called after its export had settled
NoHandlers ==
  [exports |-> [m \in Modals |-> 0], registered |-> << >>, late |-> {}]

\* a mounted modal whose handleExport is not running: isExporting is false.
\* awaits is the ffmpegLoading promise the call waits for (0: none), engine
\* the instance getFFmpeg returned (0: none yet)
NoConversion == [pc |-> "idle", awaits |-> 0, engine |-> 0]

\* DEFAULT_EXPORT_SETTINGS, the four settings that decide the output
DEFAULT_EXPORT_SETTINGS ==
  [format |-> "mp4", resolution |-> "1080p", aspectRatio |-> "16:9", fps |-> 30]

\* nothing: no options passed, no canvas made, no file downloaded
NoOptions == [width |-> 0, height |-> 0, fps |-> 0, format |-> "none"]
NoCanvas == [width |-> 0, height |-> 0, fps |-> 0]
NoFile == [type |-> "none", extension |-> "none"]
\* exportError is null
NoError == "none"

\* the ExportModal as useState initialises it. shown is the output info on
\* screen when Export was clicked, options what handleExport passed to
\* exportScenesAsVideo, canvas the canvas and frame rate the export draws at,
\* download the blob type and file extension handed to downloadBlob,
\* exportError the message on screen, outcome how far the last call of
\* handleExport has come
NewModal ==
  [settings |-> DEFAULT_EXPORT_SETTINGS, isExporting |-> FALSE,
   shown |-> NoCanvas, options |-> NoOptions, canvas |-> NoCanvas,
   download |-> NoFile, exportError |-> NoError, outcome |-> "none"]

\* DEFAULT_GLOBAL_CAMERA.zSpacing
DEFAULT_ZSPACING == 800
\* a scene without a zDepth field: `undefined`, told from every stored depth
\* (-index * zSpacing, never above 0)
NoZDepth == 1

\* a scene without a camera field
NoCamera == [undefined |-> TRUE]
\* a camera state that was not computed
NoCameraState == [computed |-> FALSE]

\* no camera preview is being evaluated
NoPreview ==
  [scenes |-> << >>, currentSceneIndex |-> 0, sceneProgress |-> 0,
   hook |-> NoCameraState, renderer |-> NoCameraState]

\* DEFAULT_DOF, aperture in tenths
DEFAULT_DOF == [enabled |-> TRUE, aperture |-> 28, maxBlur |-> 8]
\* CameraSceneRenderer has rendered nothing
NoLayers == [rendered |-> FALSE]
\* no CameraSceneRenderer is being rendered
NoLayerProps ==
  [scenes |-> << >>, currentSceneIndex |-> 0, sceneProgress |-> 0,
   globalCamera |-> [zSpacing |-> DEFAULT_ZSPACING], dof |-> DEFAULT_DOF,
   blurs |-> << >>, sectionLayers |-> NoLayers]

\* useState's initial transitionState (previousScene as the scene's id)
NotTransitioning == [isTransitioning |-> FALSE, previousScene |-> NULL]
\* the preview before anything was rendered: the clock at 0, no pending
\* timer, no transition started
NoTransition ==
  [now |-> 0, transitionState |-> NotTransitioning, previousSceneIdRef |-> NULL,
   timers |-> {}, started |-> [watching |-> FALSE, at |-> 0, length |-> 0, left |-> NULL]]

\* no animate() call has compared a time against the total yet
NoTick == [ran |-> FALSE, duration |-> 0, total |-> 0]

\* ------------------------------------------------------------ pure helpers
RECURSIVE SumDurations(_)
SumDurations(s) ==
  IF s = << >> THEN 0 ELSE s[1].duration + SumDurations(Tail(s))

\* Math.round of the rational num/den (den > 0): floor(x + 1/2)
MathRound(num, den) == (2 * num + den) \div (2 * den)


\* Array.prototype.filter
Filter(s, Test(_)) == SelectSeq(s, Test)

\* Array.prototype.sort by an integer key: ascending and stable
StableSortBy(s, Key(_)) ==
  LET rank(i) == Cardinality({j \in DOMAIN s :
                     \/ Key(s[j]) < Key(s[i])
                     \/ (Key(s[j]) = Key(s[i]) /\ j < i)})
  IN [k \in DOMAIN s |-> s[CHOOSE i \in DOMAIN s : rank(i) = k - 1]]

\* screens.find((s) => s.id === id): the first match, NULL when there is none
FindScreen(scrs, id) ==
  IF \E i \in DOMAIN scrs : scrs[i].id = id
  THEN scrs[CHOOSE i \in DOMAIN scrs :
              /\ scrs[i].id = id
              /\ \A j \in DOMAIN scrs : scrs[j].id = id => i <= j]
  ELSE NoScreen

\* the n smallest ids of `domain` outside `used`, ascending: ids built from
\* Date.now() and an index are new ones
RECURSIVE FreshIds(_, _, _)
FreshIds(domain, used, n) ==
  IF n = 0 \/ domain \ used = {} THEN << >>
  ELSE LET m == CHOOSE x \in domain \ used : \A y \in domain \ used : x <= y
       IN <<m>> \o FreshIds(domain, used \cup {m}, n - 1)

SceneIdsInUse == {scenes[i].id : i \in DOMAIN scenes}
ScreenIdsInUse == {screens[i].id : i \in DOMAIN screens}

\* ------------------------------------------------------------- types.ts
\* DEFAULT_MOTION, its two durations
DEFAULT_MOTION ==
  [entryDuration |-> DEFAULT_ENTRY_DURATION, exitDuration |-> DEFAULT_EXIT_DURATION]

createScene(id, screenId, order) ==
  [id |-> id, screenId |-> screenId, duration |-> DEFAULT_SCENE_DURATION,
   order |-> order, motion |-> DEFAULT_MOTION]

\* ------------------------------------------------------------ presets.ts
\* style.getMotion(index, total), its two durations (index is zero-based)
getMotion(styleId, index) ==
  IF styleId = "product-hunt"
  THEN [entryDuration |-> IF index = 0 THEN 700 ELSE 500, exitDuration |-> 400]
  ELSE IF styleId = "dynamic" THEN [entryDuration |-> 600, exitDuration |-> 500]
  ELSE IF styleId = "minimal" THEN [entryDuration |-> 400, exitDuration |-> 400]
  ELSE [entryDuration |-> 500, exitDuration |-> 400]

\* multipliers[sectionType] || 1, in tenths
SmartMultiplier(sectionType) ==
  CASE sectionType = "hero" -> 13
    [] sectionType = "features" -> 12
    [] sectionType = "pricing" -> 11
    [] sectionType = "testimonials" -> 10
    [] sectionType = "cta" -> 8
    [] sectionType = "footer" -> 7
    [] sectionType = "content" -> 10
    [] OTHER -> 10

\* the factor each style applies to baseDuration before getSmartDuration,
\* in hundredths
StyleFactor(styleId) ==
  CASE styleId = "product-hunt" -> 100
    [] styleId = "dynamic" -> 90
    [] styleId = "minimal" -> 85
    [] styleId = "social" -> 75
    [] OTHER -> 100

\* style.getDuration(sectionType, baseDuration) =
\* Math.round(baseDuration * factor * multiplier)
getDuration(styleId, sectionType, base) ==
  MathRound(base * StyleFactor(styleId) * SmartMultiplier(sectionType), 1000)

\* ------------------------------------------------------------- the store
InitEditor ==
  /\ screens = << >>
  /\ scenes = << >>
  /\ selectedSceneId = NULL
  /\ isPlaying = FALSE
  /\ currentTime = 0
  /\ lastOp = "init"
  /\ currentTimeRef = 0
  /\ totalDurationRef = 0
  /\ isPlayingRef = FALSE
  /\ projectRef = << >>
  /\ lastTimeRef = 0
  /\ frameRequested = FALSE
  /\ effectsPending = FALSE
  /\ tick = NoTick
  /\ export = NoExport
  /\ ffmpeg = NoFFmpeg
  /\ modal = NewModal
  /\ convert = [m \in Modals |-> NoConversion]
  /\ zSpacing = DEFAULT_ZSPACING
  /\ zDepth = << >>
  /\ zTimers = 0

\* the views at rest: nothing rendered
InitView ==
  /\ layers = NoLayerProps
  /\ mounted = [c \in Components |-> NewHook]
  /\ animationFrame = NoFrame
  /\ transition = NoTransition
  /\ handlers = NoHandlers

Init == InitEditor /\ preview = NoPreview /\ InitView

\* [...state.project.screens, screen]
addScreenTo(scrs, screen) == Append(scrs, screen)

\* the body of addScene's set(): a scene created at order = scenes.length
addSceneTo(scs, id, screenId) == Append(scs, createScene(id, screenId, Len(scs)))

\* .map((s, i) => ({ ...s, order: i }))
WithOrderFromPosition(scs) ==
  [i \in DOMAIN scs |-> [scs[i] EXCEPT !.order = i - 1]]

NewScreen(id, images) ==
  [id |-> id, imageUrl |-> images[1], thumbnail |-> images[2]]

addScreen(images) ==
  /\ Len(screens) < MaxScreens
  /\ LET ids == FreshIds(ScreenIds, ScreenIdsInUse, 1)
     IN /\ ids # << >>
        /\ screens' = addScreenTo(screens, NewScreen(ids[1], images))
  /\ UNCHANGED <<scenes, selectedSceneId, isPlaying, currentTime>>
  /\ lastOp' = "addScreen"

removeScreen(screenId) ==
  /\ screens' = Filter(screens, LAMBDA s : s.id # screenId)
  /\ scenes' = Filter(scenes, LAMBDA s : s.screenId # screenId)
  /\ UNCHANGED <<selectedSceneId, isPlaying, currentTime>>
  /\ lastOp' = "removeScreen"

clearScreens ==
  /\ screens' = << >>
  /\ scenes' = << >>
  /\ selectedSceneId' = NULL
  /\ UNCHANGED <<isPlaying, currentTime>>
  /\ lastOp' = "clearScreens"

addScene(screenId) ==
  /\ Len(scenes) < MaxScenes
  /\ LET ids == FreshIds(SceneIds, SceneIdsInUse, 1)
     IN /\ ids # << >>
        /\ scenes' = addSceneTo(scenes, ids[1], screenId)
        /\ selectedSceneId' = ids[1]
  /\ UNCHANGED <<screens, isPlaying, currentTime>>
  /\ lastOp' = "addScene"

\* addScreen(screen); addScene(screen.id)
addSceneFromScreen(images) ==
  /\ Len(screens) < MaxScreens
  /\ Len(scenes) < MaxScenes
  /\ LET scrIds == FreshIds(ScreenIds, ScreenIdsInUse, 1)
         ids == FreshIds(SceneIds, SceneIdsInUse, 1)
     IN /\ scrIds # << >>
        /\ ids # << >>
        /\ screens' = addScreenTo(screens, NewScreen(scrIds[1], images))
        /\ scenes' = addSceneTo(scenes, ids[1], scrIds[1])
        /\ selectedSceneId' = ids[1]
  /\ UNCHANGED <<isPlaying, currentTime>>
  /\ lastOp' = "addSceneFromScreen"

\* removeScene without the renumbering of the scenes that stay
removeScene_keepsOrder(sceneId) ==
  /\ LET newScenes == Filter(scenes, LAMBDA s : s.id # sceneId)
     IN /\ scenes' = newScenes
        /\ selectedSceneId' =
             IF selectedSceneId = sceneId
             THEN (IF newScenes # << >> THEN newScenes[1].id ELSE NULL)
             ELSE selectedSceneId
  /\ UNCHANGED <<screens, isPlaying, currentTime>>
  /\ lastOp' = "removeScene"

removeScene(sceneId) ==
  /\ LET newScenes ==
           WithOrderFromPosition(Filter(scenes, LAMBDA s : s.id # sceneId))
     IN /\ scenes' = newScenes
        /\ selectedSceneId' =
             IF selectedSceneId = sceneId
             THEN (IF newScenes # << >> THEN newScenes[1].id ELSE NULL)
             ELSE selectedSceneId
  /\ UNCHANGED <<screens, isPlaying, currentTime>>
  /\ lastOp' = "removeScene"

reorderScenes(list) ==
  /\ scenes' = WithOrderFromPosition(list)
  /\ UNCHANGED <<screens, selectedSceneId, isPlaying, currentTime>>
  /\ lastOp' = "reorderScenes"

\* @dnd-kit arrayMove(array, from, to): take the element out, put it in at `to`
\* (positions 1-based here)
arrayMove(s, from, to) ==
  LET without == [i \in 1..(Len(s) - 1) |-> IF i < from THEN s[i] ELSE s[i + 1]]
  IN [i \in 1..Len(s) |->
        IF i < to THEN without[i]
        ELSE IF i = to THEN s[from]
        ELSE without[i - 1]]

\* the scene list's and the timeline's drag handler
handleDragEnd(activeId, overId) ==
  /\ activeId # overId
  /\ \E oldIndex, newIndex \in DOMAIN scenes :
       /\ scenes[oldIndex].id = activeId
       /\ \A j \in DOMAIN scenes : scenes[j].id = activeId => oldIndex <= j
       /\ scenes[newIndex].id = overId
       /\ \A j \in DOMAIN scenes : scenes[j].id = overId => newIndex <= j
       /\ reorderScenes(arrayMove(scenes, oldIndex, newIndex))

selectScene(sceneId) ==
  /\ selectedSceneId' = sceneId
  /\ UNCHANGED <<screens, scenes, isPlaying, currentTime>>
  /\ UNCHANGED lastOp

updateSceneDuration(sceneId, duration) ==
  /\ scenes' = [i \in DOMAIN scenes |->
                  IF scenes[i].id = sceneId
                  THEN [scenes[i] EXCEPT !.duration = duration]
                  ELSE scenes[i]]
  /\ UNCHANGED <<screens, selectedSceneId, isPlaying, currentTime>>
  /\ lastOp' = "updateSceneDuration"

play ==
  /\ isPlaying' = TRUE
  /\ UNCHANGED <<screens, scenes, selectedSceneId, currentTime>>
  /\ UNCHANGED lastOp

pause ==
  /\ isPlaying' = FALSE
  /\ UNCHANGED <<screens, scenes, selectedSceneId, currentTime>>
  /\ UNCHANGED lastOp

stop ==
  /\ isPlaying' = FALSE
  /\ currentTime' = 0
  /\ UNCHANGED <<screens, scenes, selectedSceneId>>
  /\ UNCHANGED lastOp

seek(time) ==
  /\ currentTime' = time
  /\ UNCHANGED <<screens, scenes, selectedSceneId, isPlaying>>
  /\ UNCHANGED lastOp

\* createScreenFromCrop(crop, name), with the store's capturedPage as `page`:
\* nothing happens without a captured page
createScreenFromCrop(page) ==
  /\ page # NoPage
  /\ Len(screens) < MaxScreens
  /\ Len(scenes) < MaxScenes
  /\ LET scrIds == FreshIds(ScreenIds, ScreenIdsInUse, 1)
         ids == FreshIds(SceneIds, SceneIdsInUse, 1)
     IN /\ scrIds # << >>
        /\ ids # << >>
        /\ screens' = addScreenTo(screens, NewScreen(scrIds[1], <<"img", "thumb">>))
        /\ scenes' = addSceneTo(scenes, ids[1], scrIds[1])
        /\ selectedSceneId' = ids[1]
  /\ UNCHANGED <<isPlaying, currentTime>>
  /\ lastOp' = "createScreenFromCrop"

\* selectedSections.sort((a, b) => a.bounds.y - b.bounds.y)
SortByY(sections) == StableSortBy(sections, LAMBDA sec : sec.y)

\* the scenes generateVideoFromSections builds: one per selected section, in
\* vertical order, order = index, duration from the style
GeneratedScenes(page, sectionIds, styleId, base) ==
  LET selectedSections ==
        SortByY(Filter(page.sections, LAMBDA sec : sec.id \in sectionIds))
  IN [i \in DOMAIN selectedSections |->
        [id |-> i, screenId |-> i,
         duration |-> getDuration(styleId, selectedSections[i].type, base),
         order |-> i - 1, motion |-> getMotion(styleId, i - 1)]]

\* generateVideoFromSections(); the four store fields it reads with get()
\* (capturedPage, selectedSectionIds, selectedStyleId, baseDuration) are its
\* parameters here: their setters accept any value at any time and nothing
\* else reads them
generateVideoFromSections(page, sectionIds, styleId, base) ==
  /\ page # NoPage
  /\ sectionIds # {}
  /\ LET new == GeneratedScenes(page, sectionIds, styleId, base)
     IN /\ Len(new) <= MaxScenes
        /\ Len(new) <= MaxScreens
        /\ screens' = [i \in DOMAIN new |-> NewScreen(i, <<"img", "thumb">>)]
        /\ scenes' = new
        /\ selectedSceneId' = IF new # << >> THEN new[1].id ELSE NULL
  /\ currentTime' = 0
  /\ isPlaying' = FALSE
  /\ lastOp' = "generateVideoFromSections"

\* the scenes addManualScreens builds for n files: order = i, the loop index
ManualScenes(n, sceneIds, screenIds, styleId, base) ==
  [i \in 1..n |->
     [id |-> sceneIds[i], screenId |-> screenIds[i],
      duration |-> getDuration(styleId, "content", base),
      order |-> i - 1, motion |-> getMotion(styleId, i - 1)]]

\* addManualScreens(files) for n files, with the store's selectedStyleId and
\* baseDuration as parameters
addManualScreens(n, styleId, base) ==
  /\ Len(scenes) + n <= MaxScenes
  /\ Len(screens) + n <= MaxScreens
  /\ LET scrIds == FreshIds(ScreenIds, ScreenIdsInUse, n)
         ids == FreshIds(SceneIds, SceneIdsInUse, n)
         new == ManualScenes(n, ids, scrIds, styleId, base)
     IN /\ Len(scrIds) = n
        /\ Len(ids) = n
        /\ screens' = screens \o [i \in 1..n |-> NewScreen(scrIds[i], <<"img", "img">>)]
        /\ scenes' = scenes \o new
        /\ selectedSceneId' = IF new # << >> THEN new[1].id ELSE selectedSceneId
  /\ UNCHANGED <<isPlaying, currentTime>>
  /\ lastOp' = "addManualScreens"

resetProject ==
  /\ screens' = << >>
  /\ scenes' = << >>
  /\ selectedSceneId' = NULL
  /\ isPlaying' = FALSE
  /\ currentTime' = 0
  /\ lastOp' = "resetProject"

\* editing the project: the store's actions on screens and scenes
EditProject ==
  \/ \E images \in ScreenImages : addScreen(images)
  \/ \E id \in ScreenIds : removeScreen(id)
  \/ clearScreens
  \/ \E id \in ScreenIdsInUse \cup {MissingScreenId} : addScene(id)
  \/ \E images \in ScreenImages : addSceneFromScreen(images)
  \/ \E id \in SceneIds : removeScene(id)
  \/ \E a, o \in SceneIds : handleDragEnd(a, o)
  \/ \E id \in {scenes[i].id : i \in DOMAIN scenes} \cup {NULL} : selectScene(id)
  \/ \E id \in SceneIds, d \in DurationArgs : updateSceneDuration(id, d)
  \/ \E page \in {NoPage, ThePage} : createScreenFromCrop(page)
  \/ \E sel \in SUBSET {1, 2}, st \in StyleIds, d \in BaseDurationArgs :
       generateVideoFromSections(ThePage, sel, st, d)
  \/ \E n \in 1..MaxFiles, st \in StyleIds, d \in BaseDurationArgs :
       addManualScreens(n, st, d)
  \/ resetProject

Next == EditProject /\ UNCHANGED <<hookVars, exportVars, modalVars, cameraVars, viewVars>>

Spec == Init /\ [][Next]_vars

\* ------------------------------------------------- time-to-scene resolvers
\* a rational sceneProgress num/den, kept unreduced
Progress(num, den) == [num |-> num, den |-> den]

\* the resolvers' loop from position i with accumulatedTime already summed:
\* the first scene with accumulatedTime <= time < sceneEndTime, and the
\* accumulatedTime the loop stands at when it stops
\* the walk with a scene's end counted as part of the scene (time <= sceneEndTime)
RECURSIVE WalkScenes_inclusiveEnd(_, _, _, _)
WalkScenes_inclusiveEnd(scs, time, i, accumulatedTime) ==
  IF i > Len(scs)
  THEN [found |-> FALSE, at |-> 0, accumulatedTime |-> accumulatedTime]
  ELSE LET sceneEndTime == accumulatedTime + scs[i].duration
       IN IF time >= accumulatedTime /\ time <= sceneEndTime
          THEN [found |-> TRUE, at |-> i, accumulatedTime |-> accumulatedTime]
          ELSE WalkScenes_inclusiveEnd(scs, time, i + 1, sceneEndTime)

RECURSIVE WalkScenes(_, _, _, _)
WalkScenes(scs, time, i, accumulatedTime) ==
  IF i > Len(scs)
  THEN [found |-> FALSE, at |-> 0, accumulatedTime |-> accumulatedTime]
  ELSE LET sceneEndTime == accumulatedTime + scs[i].duration
       IN IF time >= accumulatedTime /\ time < sceneEndTime
          THEN [found |-> TRUE, at |-> i, accumulatedTime |-> accumulatedTime]
          ELSE WalkScenes(scs, time, i + 1, sceneEndTime)

NoSceneData ==
  [scene |-> NoScene, screen |-> NoScreen, sceneProgress |-> Progress(0, 1),
   sceneTime |-> 0, sceneStartTime |-> 0]

\* getSceneAtTime without its end-of-timeline branch: a time past the end falls
\* through to the first scene
getSceneAtTime_wrapsAtEnd(scs, scrs, time) ==
  LET w == WalkScenes(scs, time, 1, 0)
  IN IF w.found
     THEN LET scene == scs[w.at]
          IN [scene |-> scene,
              screen |-> FindScreen(scrs, scene.screenId),
              sceneProgress |-> Progress(time - w.accumulatedTime, scene.duration),
              sceneTime |-> time - w.accumulatedTime,
              sceneStartTime |-> w.accumulatedTime]
     ELSE IF Len(scs) > 0
     THEN LET firstScene == scs[1]
          IN [scene |-> firstScene,
              screen |-> FindScreen(scrs, firstScene.screenId),
              sceneProgress |-> Progress(0, 1),
              sceneTime |-> 0,
              sceneStartTime |-> 0]
     ELSE NoSceneData

\* usePlayback().getSceneAtTime(time) over project.scenes / project.screens
getSceneAtTime(scs, scrs, time) ==
  LET w == WalkScenes(scs, time, 1, 0)
  IN IF w.found
     THEN LET scene == scs[w.at]
          IN [scene |-> scene,
              screen |-> FindScreen(scrs, scene.screenId),
              sceneProgress |-> Progress(time - w.accumulatedTime, scene.duration),
              sceneTime |-> time - w.accumulatedTime,
              sceneStartTime |-> w.accumulatedTime]
     ELSE IF Len(scs) > 0 /\ time >= w.accumulatedTime
     THEN LET lastScene == scs[Len(scs)]
          IN [scene |-> lastScene,
              screen |-> FindScreen(scrs, lastScene.screenId),
              sceneProgress |-> Progress(1, 1),
              sceneTime |-> lastScene.duration,
              sceneStartTime |-> w.accumulatedTime - lastScene.duration]
     ELSE IF Len(scs) > 0
     THEN LET firstScene == scs[1]
          IN [scene |-> firstScene,
              screen |-> FindScreen(scrs, firstScene.screenId),
              sceneProgress |-> Progress(0, 1),
              sceneTime |-> 0,
              sceneStartTime |-> 0]
     ELSE NoSceneData

\* useCameraRendererProps(): { currentSceneIndex, sceneProgress } for the
\* store's scenes and currentTime
useCameraRendererProps(scs, time) ==
  LET w == WalkScenes(scs, time, 1, 0)
  IN IF w.found
     THEN [currentSceneIndex |-> w.at - 1,
           sceneProgress |-> Progress(time - w.accumulatedTime, scs[w.at].duration)]
     ELSE IF Len(scs) > 0 /\ time >= w.accumulatedTime
     THEN [currentSceneIndex |-> Len(scs) - 1, sceneProgress |-> Progress(1, 1)]
     ELSE [currentSceneIndex |-> 0, sceneProgress |-> Progress(0, 1)]

\* useCinematicRendererProps(): the same walk, written out a second time
useCinematicRendererProps(scs, time) ==
  LET w == WalkScenes(scs, time, 1, 0)
  IN IF w.found
     THEN [currentSceneIndex |-> w.at - 1,
           sceneProgress |-> Progress(time - w.accumulatedTime, scs[w.at].duration)]
     ELSE IF Len(scs) > 0 /\ time >= w.accumulatedTime
     THEN [currentSceneIndex |-> Len(scs) - 1, sceneProgress |-> Progress(1, 1)]
     ELSE [currentSceneIndex |-> 0, sceneProgress |-> Progress(0, 1)]

\* ------------------------------------------------ what gets rendered
\* handleExport's sceneData without the final filter
handleExportSceneData_keepsAll(scs, scrs) ==
  LET entry(scene) ==
        LET screen == FindScreen(scrs, scene.screenId)
        IN [imageUrl |-> IF screen.imageUrl # "" THEN screen.imageUrl
                         ELSE IF screen.thumbnail # "" THEN screen.thumbnail
                         ELSE "",
            duration |-> scene.duration]
  IN [i \in DOMAIN scs |-> entry(scs[i])]

\* export-modal handleExport: sceneData, one entry per scene in list order,
\* imageUrl = screen?.imageUrl || screen?.thumbnail || '', then the entries
\* without an image are dropped
handleExportSceneData(scs, scrs) ==
  LET entry(scene) ==
        LET screen == FindScreen(scrs, scene.screenId)
        IN [imageUrl |-> IF screen.imageUrl # "" THEN screen.imageUrl
                         ELSE IF screen.thumbnail # "" THEN screen.thumbnail
                         ELSE "",
            duration |-> scene.duration]
  IN Filter([i \in DOMAIN scs |-> entry(scs[i])], LAMBDA d : d.imageUrl # "")

\* CameraSceneRenderer: the scenes (zero-based indices) drawn as a SectionLayer
CameraSceneRendererLayers(scs, scrs, currentSceneIndex) ==
  IF Len(scs) = 0 THEN {}
  ELSE IF Len(scs) = 1
  THEN (IF FindScreen(scrs, scs[1].screenId) = NoScreen THEN {} ELSE {0})
  ELSE LET lo == IF currentSceneIndex - 2 > 0 THEN currentSceneIndex - 2 ELSE 0
           hi == IF currentSceneIndex + 2 < Len(scs) - 1
                 THEN currentSceneIndex + 2 ELSE Len(scs) - 1
           visibleSceneIndices == lo..hi
       IN {i \in visibleSceneIndices :
             FindScreen(scrs, scs[i + 1].screenId) # NoScreen}

\* CinematicRenderer: the scene shown full screen, NoScene for the
\* "No scene to display" placeholder
CinematicRendererShown(scs, scrs, currentSceneIndex) ==
  LET currentScene == IF currentSceneIndex + 1 \in DOMAIN scs
                      THEN scs[currentSceneIndex + 1] ELSE NoScene
      currentScreen == IF currentScene # NoScene
                       THEN FindScreen(scrs, currentScene.screenId) ELSE NoScreen
  IN IF currentScene = NoScene \/ currentScreen = NoScreen
     THEN NoScene ELSE currentScene

\* ------------------------------------------------------------ usePlayback
\* useTotalDuration()
useTotalDuration(scs) == SumDurations(scs)

\* a store action taken while the playback hook is mounted: React runs the
\* passive effects of the previous commit before it renders the next update,
\* and the commit of this update leaves its own effects to run later
WithRender(storeAction) ==
  /\ ~effectsPending
  /\ storeAction
  /\ effectsPending' = (storeVars' # storeVars)
  /\ UNCHANGED <<currentTimeRef, totalDurationRef, isPlayingRef, projectRef,
                 lastTimeRef, frameRequested, tick, exportVars, modalVars,
                 cameraVars, viewVars>>

\* the passive effects of usePlayback, in declaration order: the four ref
\* syncs, then the animation-loop effect when isPlaying changed
FlushEffects ==
  /\ effectsPending
  /\ currentTimeRef' = currentTime
  /\ totalDurationRef' = useTotalDuration(scenes)
  /\ isPlayingRef' = isPlaying
  /\ projectRef' = scenes
  /\ IF isPlaying = isPlayingRef
     THEN UNCHANGED <<frameRequested, lastTimeRef>>
     ELSE IF ~isPlaying
     THEN frameRequested' = FALSE /\ lastTimeRef' = 0
     ELSE IF Len(scenes) = 0
     THEN UNCHANGED <<frameRequested, lastTimeRef>>
     ELSE frameRequested' = TRUE /\ UNCHANGED lastTimeRef
  /\ effectsPending' = FALSE
  /\ UNCHANGED <<storeVars, lastOp, tick, exportVars, modalVars, cameraVars, viewVars>>

\* animate(timestamp), the requestAnimationFrame callback; delta is
\* timestamp - lastTimeRef.current
animate(delta) ==
  /\ frameRequested
  /\ IF ~isPlayingRef
     THEN /\ lastTimeRef' = 0
          /\ frameRequested' = FALSE
          /\ UNCHANGED <<storeVars, effectsPending, tick>>
     ELSE IF Len(projectRef) = 0
     THEN /\ isPlaying' = FALSE
          /\ lastTimeRef' = 0
          /\ frameRequested' = FALSE
          /\ effectsPending' = (effectsPending \/ isPlaying)
          /\ UNCHANGED <<screens, scenes, selectedSceneId, currentTime, tick>>
     ELSE LET elapsed == IF lastTimeRef = 0 THEN 0 ELSE delta
              newTime == currentTimeRef + elapsed
              duration == totalDurationRef
          IN /\ (lastTimeRef = 0 => delta = 0)
             /\ tick' = [ran |-> TRUE, duration |-> duration,
                         total |-> useTotalDuration(scenes)]
             /\ IF duration > 0 /\ newTime >= duration
                THEN /\ currentTime' = 0
                     /\ isPlaying' = FALSE
                     /\ lastTimeRef' = 0
                     /\ frameRequested' = FALSE
                ELSE /\ newTime <= MaxTime
                     /\ currentTime' = newTime
                     /\ lastTimeRef' = 1
                     /\ frameRequested' = TRUE
                     /\ UNCHANGED isPlaying
             /\ effectsPending' =
                  (effectsPending \/ currentTime' # currentTime \/ isPlaying' # isPlaying)
             /\ UNCHANGED <<screens, scenes, selectedSceneId>>
  /\ UNCHANGED <<currentTimeRef, totalDurationRef, isPlayingRef, projectRef, lastOp,
                 exportVars, modalVars, cameraVars, viewVars>>

NextPlayback ==
  \/ WithRender(addSceneFromScreen(<<"img", "thumb">>))
  \/ WithRender(\E id \in SceneIds, d \in DurationArgs : updateSceneDuration(id, d))
  \/ WithRender(\E id \in SceneIds : removeScene(id))
  \/ WithRender(\E a, o \in SceneIds : handleDragEnd(a, o))
  \/ WithRender(play)
  \/ WithRender(pause)
  \/ WithRender(stop)
  \/ WithRender(\E t \in SeekTimes : seek(t))
  \/ FlushEffects
  \/ \E delta \in FrameDeltas \cup {0} : animate(delta)

SpecPlayback == Init /\ [][NextPlayback]_vars

\* ------------------------------------------- seeking from the editor's views
SEEK_AMOUNT == 500
SEEK_AMOUNT_LARGE == 2000
\* where a drag of the playhead asks to go: before the start, on the
\* timeline, past the end of every timeline the bounds allow
DragTimes == {0 - 500, 1000, 9000}
\* clientX - rect.left as tenths of rect.width
TrackClicks == {0, 5, 10}
KeyDigits == {0, 5}

\* Math.max and Math.min on whole milliseconds
IntMax(a, b) == IF a >= b THEN a ELSE b
IntMin(a, b) == IF a <= b THEN a ELSE b

\* Timeline's handleSeek(time): seek(Math.max(0, Math.min(totalDuration, time)))
handleSeek(time) ==
  LET totalDuration == useTotalDuration(scenes)
  IN seek(IntMax(0, IntMin(totalDuration, time)))

\* Timeline's handleTrackClick: nothing on an empty timeline
handleTrackClick(x) ==
  LET totalDuration == useTotalDuration(scenes)
  IN /\ totalDuration # 0
     /\ handleSeek((x * totalDuration) \div 10)

\* useKeyboardShortcuts' handleKeyDown: the keys that move the playhead
handleKeyDown(key, shiftKey, digit) ==
  LET totalDuration == useTotalDuration(scenes)
      amount == IF shiftKey THEN SEEK_AMOUNT_LARGE ELSE SEEK_AMOUNT
  IN CASE key = "ArrowLeft" -> seek(IntMax(0, currentTime - amount))
       [] key = "ArrowRight" -> seek(IntMin(totalDuration, currentTime + amount))
       [] key = "Home" -> seek(0)
       [] key = "End" -> seek(totalDuration)
       [] key = "Digit" -> seek((totalDuration * digit) \div 10)

\* an animation frame of the playback loop once the effects of the last
\* render have run, so that animate works on the store's current values
playbackTick(delta) == ~effectsPending /\ animate(delta)

NextTimeline ==
  \/ WithRender(addSceneFromScreen(<<"img", "thumb">>))
  \/ WithRender(\E id \in SceneIds, d \in DurationArgs : updateSceneDuration(id, d))
  \/ WithRender(\E id \in SceneIds : removeScene(id))
  \/ WithRender(\E id \in ScreenIds : removeScreen(id))
  \/ WithRender(clearScreens)
  \/ WithRender(\E a, o \in SceneIds : handleDragEnd(a, o))
  \/ WithRender(play)
  \/ WithRender(pause)
  \/ WithRender(\E t \in DragTimes : handleSeek(t))
  \/ WithRender(\E x \in TrackClicks : handleTrackClick(x))
  \/ WithRender(\E key \in {"ArrowLeft", "ArrowRight", "Home", "End", "Digit"},
                   shiftKey \in BOOLEAN, digit \in KeyDigits :
                   handleKeyDown(key, shiftKey, digit))
  \/ FlushEffects
  \/ \E delta \in FrameDeltas \cup {0} : playbackTick(delta)

SpecTimeline == Init /\ [][NextTimeline]_vars

\* the scene-change effect's transitionDuration: how long the preview shows
\* the transition from prevScene to the current scene
previewTransitionDuration(currentScene, prevScene) ==
  IF currentScene.motion.entryDuration > prevScene.motion.exitDuration
  THEN currentScene.motion.entryDuration
  ELSE prevScene.motion.exitDuration

\* ---------------------------------------------------- lib/video-export.ts
\* error messages
NoScenesError == "No scenes to export"
ImageLoadError == "Failed to load image"
UnsupportedError == "WebM VP9 not supported. Please use Chrome or Edge."
TryWebMError == "MP4 export failed. Please try WebM format instead."

\* a percentage num/den passed to onProgress, kept unreduced
Percent(num, den) == [num |-> num, den |-> den]

\* onProgress?.(p)
Report(ex, p) == [ex EXCEPT !.progress = Append(@, p)]

\* throw new Error(err) in the stage `at`: everything thrown inside
\* exportAsMP4's try block is replaced by the 'try WebM' error
Throw(ex, err, at) ==
  [ex EXCEPT !.stage = "failed",
             !.error = IF ex.format = "mp4" /\ at # "validate" THEN TryWebMError ELSE err,
             !.failedAt = at]

\* loadImage(src): whether img.onload (and not img.onerror) fires
loadImage(src) == src = "ok.png"

\* the frame rate of the frame loop: fps, and Math.min(fps, 15) for a GIF
frameRate(ex) ==
  IF ex.format = "gif"
  THEN (IF ex.fps < GIF_MAX_FPS THEN ex.fps ELSE GIF_MAX_FPS)
  ELSE ex.fps

\* The frame loop's times are kept exact, in units of 1/frameRate ms: a time
\* of ms milliseconds is ms * frameRate units, and frameDuration
\* (1000 / frameRate ms) is 1000 units.
Units(ex, ms) == ms * frameRate(ex)
frameDuration == 1000

\* scenes.reduce((acc, s) => acc + s.duration, 0), in ms
totalDuration(ex) == SumDurations(ex.scenes)

\* Math.floor instead of Math.ceil
totalFrames_floor(ex) == Units(ex, totalDuration(ex)) \div frameDuration

\* Math.ceil(totalDuration / frameDuration)
totalFrames(ex) == (Units(ex, totalDuration(ex)) + frameDuration - 1) \div frameDuration

\* the scene advance as an `if`: at most one scene per frame
advanceScene_oneStep(ex, currentSceneIndex, sceneStartTime) ==
  IF /\ currentSceneIndex < Len(ex.scenes) - 1
     /\ ex.currentTime >=
          sceneStartTime + Units(ex, ex.scenes[currentSceneIndex + 1].duration)
  THEN [currentSceneIndex |-> currentSceneIndex + 1,
        sceneStartTime |->
          sceneStartTime + Units(ex, ex.scenes[currentSceneIndex + 1].duration)]
  ELSE [currentSceneIndex |-> currentSceneIndex, sceneStartTime |-> sceneStartTime]

\* the while loop at the head of the frame loop's body (currentSceneIndex is
\* zero-based, as in the code)
RECURSIVE advanceScene(_, _, _)
advanceScene(ex, currentSceneIndex, sceneStartTime) ==
  IF /\ currentSceneIndex < Len(ex.scenes) - 1
     /\ ex.currentTime >=
          sceneStartTime + Units(ex, ex.scenes[currentSceneIndex + 1].duration)
  THEN advanceScene(ex, currentSceneIndex + 1,
         sceneStartTime + Units(ex, ex.scenes[currentSceneIndex + 1].duration))
  ELSE [currentSceneIndex |-> currentSceneIndex, sceneStartTime |-> sceneStartTime]

\* the body without the `currentSceneIndex > 0` and
\* `currentSceneIndex < scenes.length - 1` conditions
frameLoopBody_transitionsAtTimelineEdges(ex) ==
  LET at == advanceScene(ex, ex.currentSceneIndex, ex.sceneStartTime)
      i == at.currentSceneIndex
      scene == ex.scenes[i + 1]
      sceneTime == ex.currentTime - at.sceneStartTime
      transitionDuration == Units(ex, TRANSITION_DURATION)
      isInEntryTransition == sceneTime < transitionDuration
      isInExitTransition == sceneTime > Units(ex, scene.duration) - transitionDuration
      frame == [time |-> ex.currentTime, currentSceneIndex |-> i,
                sceneTime |-> sceneTime, yields |-> ex.yields,
                draw |-> IF isInEntryTransition \/ isInExitTransition
                         THEN "drawTransitionFrame" ELSE "drawSceneFrame",
                images |-> IF isInEntryTransition THEN <<i - 1, i>>
                           ELSE IF isInExitTransition THEN <<i, i + 1>>
                           ELSE <<i>>]
      frameIndex == Len(ex.frames)
  IN Report([ex EXCEPT !.currentSceneIndex = i,
                       !.sceneStartTime = at.sceneStartTime,
                       !.frames = Append(@, frame),
                       !.currentTime = @ + frameDuration],
            Percent(10 * totalFrames(ex)
                      + (frameIndex + 1) * (IF ex.format = "gif" THEN 60 ELSE 70),
                    totalFrames(ex)))

\* one iteration of the frame loop (renderToWebM 215-251, exportAsGIF
\* 428-464): advance to the scene of currentTime, draw the frame (and add it
\* to the GIF), step currentTime, report progress. A frame carries the number
\* of times the loop had suspended when it was drawn.
frameLoopBody(ex) ==
  LET at == advanceScene(ex, ex.currentSceneIndex, ex.sceneStartTime)
      i == at.currentSceneIndex
      scene == ex.scenes[i + 1]
      sceneTime == ex.currentTime - at.sceneStartTime
      transitionDuration == Units(ex, TRANSITION_DURATION)
      isInEntryTransition == sceneTime < transitionDuration /\ i > 0
      isInExitTransition ==
        /\ sceneTime > Units(ex, scene.duration) - transitionDuration
        /\ i < Len(ex.scenes) - 1
      frame == [time |-> ex.currentTime, currentSceneIndex |-> i,
                sceneTime |-> sceneTime, yields |-> ex.yields,
                draw |-> IF isInEntryTransition \/ isInExitTransition
                         THEN "drawTransitionFrame" ELSE "drawSceneFrame",
                images |-> IF isInEntryTransition THEN <<i - 1, i>>
                           ELSE IF isInExitTransition THEN <<i, i + 1>>
                           ELSE <<i>>]
      frameIndex == Len(ex.frames)
  IN Report([ex EXCEPT !.currentSceneIndex = i,
                       !.sceneStartTime = at.sceneStartTime,
                       !.frames = Append(@, frame),
                       !.currentTime = @ + frameDuration],
            Percent(10 * totalFrames(ex)
                      + (frameIndex + 1) * (IF ex.format = "gif" THEN 60 ELSE 70),
                    totalFrames(ex)))

\* exportAsGIF's frame loop and the gif.render() call after it: the body has
\* no await, so every frame is drawn before anything else can run
RECURSIVE gifFrameLoop(_)
gifFrameLoop(ex) ==
  IF Len(ex.frames) < totalFrames(ex)
  THEN gifFrameLoop(frameLoopBody(ex))
  ELSE [ex EXCEPT !.stage = "gifRender"]

\* after the image loop: the totals are computed, then the recorder is
\* started and the frame loop begins (WebM, MP4), or the whole frame loop
\* runs (GIF)
startEncoding(ex) ==
  LET begun == [ex EXCEPT !.currentTime = 0, !.currentSceneIndex = 0,
                          !.sceneStartTime = 0]
  IN IF ex.format = "gif"
     THEN gifFrameLoop(begun)
     ELSE [begun EXCEPT !.stage = "encoding", !.recorder = "recording"]

\* the image loop with the recorder started before the first image is loaded
startLoading_recordsFirst(ex) ==
  IF Len(ex.scenes) = 0
  THEN startEncoding(ex)
  ELSE [ex EXCEPT !.stage = "loading", !.loadsStarted = 1,
                  !.recorder = IF ex.format = "gif" THEN @ ELSE "recording"]

\* onProgress?.(0) and the image loop up to its first await loadImage(...)
startLoading(ex) ==
  IF Len(ex.scenes) = 0
  THEN startEncoding(ex)
  ELSE [ex EXCEPT !.stage = "loading", !.loadsStarted = 1]

\* renderToWebM without the isTypeSupported check
renderToWebM_unchecked(ex) ==
  startLoading(Report([ex EXCEPT !.created = {"canvas", "recorder"},
                                 !.recorder = "created"], Percent(0, 1)))

\* renderToWebM 171-199: canvas, capability check, recorder, then loading
renderToWebM(ex) ==
  IF ~ex.vp9
  THEN Throw([ex EXCEPT !.created = {"canvas"}], UnsupportedError, "capability")
  ELSE startLoading(Report([ex EXCEPT !.created = {"canvas", "recorder"},
                                      !.recorder = "created"], Percent(0, 1)))

\* exportAsGIF 391-414: canvas, GIF encoder, then loading
exportAsGIF(ex) ==
  startLoading(Report([ex EXCEPT !.created = {"canvas", "gif"}], Percent(0, 1)))

\* the dispatch on the format alone, without the empty-list check
exportScenesAsVideo_noEmptyCheck(scs, format, fps, vp9) ==
  /\ export.stage = "idle"
  /\ LET ex == [NoExport EXCEPT !.scenes = scs, !.format = format,
                                !.fps = fps, !.vp9 = vp9]
     IN export' = IF format = "gif" THEN exportAsGIF(ex) ELSE renderToWebM(ex)
  /\ UNCHANGED <<storeVars, lastOp, hookVars, ffmpeg, modalVars, cameraVars, viewVars>>

\* exportScenesAsVideo(scenes, options), up to its first await; vp9 is what
\* MediaRecorder.isTypeSupported answers on this host
exportScenesAsVideo(scs, format, fps, vp9) ==
  /\ export.stage = "idle"
  /\ LET ex == [NoExport EXCEPT !.scenes = scs, !.format = format,
                                !.fps = fps, !.vp9 = vp9]
     IN export' = IF Len(scs) = 0 THEN Throw(ex, NoScenesError, "validate")
                  ELSE IF format = "gif" THEN exportAsGIF(ex)
                  ELSE renderToWebM(ex)
  /\ UNCHANGED <<storeVars, lastOp, hookVars, ffmpeg, modalVars, cameraVars, viewVars>>

\* the awaited loadImage settles: the image is pushed and the next load is
\* started (or the frame loop begins), or the rejection ends the export
imageSettled ==
  /\ export.stage = "loading"
  /\ LET i == export.loadsStarted
         n == Len(export.scenes)
         loaded == Report([export EXCEPT !.images = i], Percent(i * 10, n))
     IN export' = IF ~loadImage(export.scenes[i].imageUrl)
                  THEN Throw(export, ImageLoadError, "loading")
                  ELSE IF i < n THEN [loaded EXCEPT !.loadsStarted = i + 1]
                  ELSE startEncoding(loaded)
  /\ UNCHANGED <<storeVars, lastOp, hookVars, ffmpeg, modalVars, cameraVars, viewVars>>

\* await new Promise((resolve) => requestAnimationFrame(resolve)), the last
\* statement of renderToWebM's loop body: the loop suspends until the host's
\* next animation frame
awaitAnimationFrame(ex) == [ex EXCEPT !.yields = @ + 1]

\* frameIndex < totalFrames in renderToWebM: one more frame, up to the await
\* that ends the body
renderFrame ==
  /\ export.stage = "encoding"
  /\ Len(export.frames) < totalFrames(export)
  /\ export' = awaitAnimationFrame(frameLoopBody(export))
  /\ UNCHANGED <<storeVars, lastOp, hookVars, ffmpeg, modalVars, cameraVars, viewVars>>

\* renderToWebM's frame loop is over: mediaRecorder.stop()
framesDone ==
  /\ export.stage = "encoding"
  /\ export.recorder = "recording"
  /\ Len(export.frames) >= totalFrames(export)
  /\ export' = [export EXCEPT !.stage = "stopping", !.recorder = "stopped"]
  /\ UNCHANGED <<storeVars, lastOp, hookVars, ffmpeg, modalVars, cameraVars, viewVars>>

\* mediaRecorder.onstop: renderToWebM resolves with the WebM blob; exportAsWebM
\* reports 100 and returns it, exportAsMP4 goes on to convertToMP4, which
\* runs getFFmpeg up to its first await
recorderStopped ==
  /\ export.stage = "stopping"
  /\ IF export.format = "webm"
     THEN /\ export' = [Report(export, Percent(100, 1)) EXCEPT
                          !.stage = "done", !.blob = "webm"]
          /\ UNCHANGED ffmpeg
     ELSE IF ffmpeg.loaded
     THEN /\ export' = [export EXCEPT !.stage = "transcode"]
          /\ ffmpeg' = [ffmpeg EXCEPT !.files = @ \cup {"input.webm"}]
     ELSE IF ffmpeg.loading # "none"
     THEN /\ export' = Throw(export, "ffmpeg load failed", "transcode")
          /\ UNCHANGED ffmpeg
     ELSE /\ export' = [Report(export, Percent(80, 1)) EXCEPT
                          !.stage = "ffmpegLoad", !.created = @ \cup {"ffmpeg"}]
          /\ ffmpeg' = [ffmpeg EXCEPT !.loading = "pending",
                                      !.instances = @ + 1, !.loads = @ + 1]
  /\ UNCHANGED <<storeVars, lastOp, hookVars, modalVars, cameraVars, viewVars>>

\* ffmpegLoading settles: loaded, 85 is reported, input.webm is written and
\* exec is started; or the rejection ends the export
ffmpegLoadSettled(ok) ==
  /\ export.stage = "ffmpegLoad"
  /\ IF ok
     THEN /\ export' = [Report(export, Percent(85, 1)) EXCEPT !.stage = "transcode"]
          /\ ffmpeg' = [ffmpeg EXCEPT !.loaded = TRUE, !.loading = "resolved",
                                      !.files = @ \cup {"input.webm"}]
     ELSE /\ export' = Throw(export, "ffmpeg load failed", "transcode")
          /\ ffmpeg' = [ffmpeg EXCEPT !.loading = "rejected"]
  /\ UNCHANGED <<storeVars, lastOp, hookVars, modalVars, cameraVars, viewVars>>

\* ffmpeg.on('progress'): onProgress?.(85 + progress * 14), progress = p / 2
ffmpegProgress(p) ==
  /\ export.stage = "transcode"
  /\ p > export.encoderProgress
  /\ export' = [Report(export, Percent(85 + 7 * p, 1)) EXCEPT !.encoderProgress = p]
  /\ UNCHANGED <<storeVars, lastOp, hookVars, ffmpeg, modalVars, cameraVars, viewVars>>

\* ffmpeg.exec settles: output.mp4 is read, both files are deleted, 100 is
\* reported and the MP4 blob returned; or the rejection ends the export
execSettled(ok) ==
  /\ export.stage = "transcode"
  /\ IF ok
     THEN /\ export' = [Report(export, Percent(100, 1)) EXCEPT
                          !.stage = "done", !.blob = "mp4"]
          /\ ffmpeg' = [ffmpeg EXCEPT !.files = @ \ {"input.webm", "output.mp4"}]
     ELSE /\ export' = Throw(export, "ffmpeg exec failed", "transcode")
          /\ UNCHANGED ffmpeg
  /\ UNCHANGED <<storeVars, lastOp, hookVars, modalVars, cameraVars, viewVars>>

\* the GIF encoder's progress reported without the 70 the frames end at
gifProgress_restartsAtZero(p) ==
  /\ export.stage = "gifRender"
  /\ p > export.encoderProgress
  /\ export' = [Report(export, Percent(15 * p, 1)) EXCEPT !.encoderProgress = p]
  /\ UNCHANGED <<storeVars, lastOp, hookVars, ffmpeg, modalVars, cameraVars, viewVars>>

\* gif.on('progress'): onProgress?.(70 + p * 30), progress = p / 2
gifProgress(p) ==
  /\ export.stage = "gifRender"
  /\ p > export.encoderProgress
  /\ export' = [Report(export, Percent(70 + 15 * p, 1)) EXCEPT !.encoderProgress = p]
  /\ UNCHANGED <<storeVars, lastOp, hookVars, ffmpeg, modalVars, cameraVars, viewVars>>

\* gif.on('finished'): 100 is reported and the GIF blob returned
gifFinished ==
  /\ export.stage = "gifRender"
  /\ export' = [Report(export, Percent(100, 1)) EXCEPT !.stage = "done", !.blob = "gif"]
  /\ UNCHANGED <<storeVars, lastOp, hookVars, ffmpeg, modalVars, cameraVars, viewVars>>

\* handleExport's catch and finally: the promise has settled, the modal
\* leaves its exporting state and another export can be started
handleExportSettled ==
  /\ export.stage \in {"done", "failed"}
  /\ export' = NoExport
  /\ UNCHANGED <<storeVars, lastOp, hookVars, ffmpeg, modalVars, cameraVars, viewVars>>

NextExport ==
  \/ \E scs \in ExportSceneLists, format \in ExportFormats,
        fps \in ExportFps, vp9 \in BOOLEAN :
       exportScenesAsVideo(scs, format, fps, vp9)
  \/ imageSettled
  \/ renderFrame
  \/ framesDone
  \/ recorderStopped
  \/ \E ok \in BOOLEAN : ffmpegLoadSettled(ok)
  \/ \E p \in EncoderProgress : ffmpegProgress(p)
  \/ \E ok \in BOOLEAN : execSettled(ok)
  \/ \E p \in EncoderProgress : gifProgress(p)
  \/ gifFinished
  \/ handleExportSettled

SpecExport == Init /\ [][NextExport]_vars

\* ------------------------------------------------ what a frame is drawn with
\* Alphas and transition progress are exact: progress is a number of time
\* units out of the units of the transition window, an alpha a numerator
\* over the square of those units.
transitionUnits(ex) == Units(ex, TRANSITION_DURATION)
alphaUnits(ex) == transitionUnits(ex) * transitionUnits(ex)

\* the transitionProgress renderToWebM 232-241 hands to drawTransitionFrame
\* for a frame of the loop: sceneTime / transitionDuration in the entry
\* window, the time into the exit window / transitionDuration otherwise
transitionProgress(ex, frame) ==
  LET i == frame.currentSceneIndex
      scene == ex.scenes[i + 1]
  IN IF frame.images[2] = i
     THEN frame.sceneTime
     ELSE frame.sceneTime - (Units(ex, scene.duration) - transitionUnits(ex))

\* drawTransitionFrame's ease(t) = t < 0.5 ? 2t^2 : 1 - (-2t + 2)^2 / 2
ease(ex, progress) ==
  LET d == transitionUnits(ex)
  IN IF 2 * progress < d
     THEN 2 * progress * progress
     ELSE alphaUnits(ex) - 2 * (d - progress) * (d - progress)

\* drawTransitionFrame 133-160: what is drawn with which globalAlpha
drawTransitionFrame(ex, frame) ==
  LET progress == transitionProgress(ex, frame)
      eased == ease(ex, progress)
  IN [imgFrom |-> IF 2 * progress < transitionUnits(ex)
                  THEN [drawn |-> TRUE, image |-> frame.images[1],
                        alpha |-> alphaUnits(ex) - eased]
                  ELSE [drawn |-> FALSE, image |-> frame.images[1], alpha |-> 0],
      imgTo |-> [drawn |-> TRUE, image |-> frame.images[2], alpha |-> eased],
      progress |-> progress]

\* ------------------------------------------- encoders that report an error
\* The promise of an export that no event will settle any more.
Unsettled == "unsettled"

\* MediaRecorder fires 'error' during the frame loop and becomes inactive.
\* mediaRecorder.onerror is only assigned after the loop (renderToWebM 265),
\* so nothing hears it; the loop goes on drawing.
recorderError ==
  /\ export.stage = "encoding"
  /\ export.recorder = "recording"
  /\ export' = [export EXCEPT !.recorder = "inactive"]
  /\ UNCHANGED <<storeVars, lastOp, hookVars, ffmpeg, modalVars, cameraVars, viewVars>>

\* the frame loop is over and mediaRecorder.stop() (253) is called on the
\* inactive recorder. Hosts differ: stop() throws InvalidStateError, which
\* rejects renderToWebM's promise, or it returns and the promise of 255-266
\* is created with handlers for events that have already been fired.
framesDoneAfterError(throws) ==
  /\ export.stage = "encoding"
  /\ export.recorder = "inactive"
  /\ Len(export.frames) >= totalFrames(export)
  /\ export' = IF throws THEN Throw(export, "InvalidStateError", "encoding")
               ELSE [export EXCEPT !.stage = Unsettled]
  /\ UNCHANGED <<storeVars, lastOp, hookVars, ffmpeg, modalVars, cameraVars, viewVars>>

\* MediaRecorder fires 'error' after stop(): mediaRecorder.onerror (265)
\* rejects the promise
recorderErrorAfterStop ==
  /\ export.stage = "stopping"
  /\ export' = Throw([export EXCEPT !.recorder = "inactive"],
                     "MediaRecorder error", "stopping")
  /\ UNCHANGED <<storeVars, lastOp, hookVars, ffmpeg, modalVars, cameraVars, viewVars>>

\* the GIF encoder fails while rendering: the promise of exportAsGIF 466-477
\* listens to 'finished' and 'progress' only and never calls reject
gifEncoderFailed ==
  /\ export.stage = "gifRender"
  /\ export' = [export EXCEPT !.stage = Unsettled]
  /\ UNCHANGED <<storeVars, lastOp, hookVars, ffmpeg, modalVars, cameraVars, viewVars>>

\* the steps the host takes on its own once the images are loaded: animation
\* frames, settled awaits and encoder events
RunEncoders ==
  \/ renderFrame
  \/ framesDone
  \/ recorderStopped
  \/ \E ok \in BOOLEAN : ffmpegLoadSettled(ok)
  \/ \E p \in EncoderProgress : ffmpegProgress(p)
  \/ \E ok \in BOOLEAN : execSettled(ok)
  \/ \E p \in EncoderProgress : gifProgress(p)
  \/ gifFinished
  \/ recorderError
  \/ \E throws \in BOOLEAN : framesDoneAfterError(throws)
  \/ recorderErrorAfterStop
  \/ gifEncoderFailed

NextExportFair ==
  \/ \E scs \in ExportSceneLists, format \in ExportFormats,
        fps \in ExportFps, vp9 \in BOOLEAN :
       exportScenesAsVideo(scs, format, fps, vp9)
  \/ imageSettled
  \/ RunEncoders
  \/ handleExportSettled

\* every awaited loadImage settles (img.onload or img.onerror, 52-60): weak
\* fairness of imageSettled, written out with what ENABLED imageSettled is,
\* the loading stage
ImagesSettle ==
  []<>(export.stage # "loading") \/ []<><<imageSettled>>_vars

\* the event loop runs every continuation that is ready and delivers every
\* event the encoders fire; the user is not obliged to start an export
SpecExportFair ==
  Init /\ [][NextExportFair]_vars /\ WF_vars(RunEncoders) /\ ImagesSettle

\* ------------------------------------- two MP4 exports and the one engine
\* getFFmpeg without the `if (ffmpegLoading)` branch: a caller that finds the
\* engine not loaded yet makes its own
getFFmpeg_withoutPendingCheck(ff) ==
  IF ff.instances > 0 /\ ff.loaded
  THEN [ffmpeg |-> ff, awaits |-> 0]
  ELSE [ffmpeg |-> [ff EXCEPT !.loading = "pending", !.instances = @ + 1,
                              !.loads = @ + 1],
        awaits |-> ff.loads + 1]

\* getFFmpeg() up to its first await (or its return): the singleton after the
\* call, and the ffmpegLoading promise the caller awaits (0: it returned the
\* loaded instance)
getFFmpeg(ff) ==
  IF ff.instances > 0 /\ ff.loaded
  THEN [ffmpeg |-> ff, awaits |-> 0]
  ELSE IF ff.loading # "none"
  THEN [ffmpeg |-> ff, awaits |-> ff.loads]
  ELSE [ffmpeg |-> [ff EXCEPT !.loading = "pending", !.instances = @ + 1,
                              !.loads = @ + 1],
        awaits |-> ff.loads + 1]

\* handleExport() of the modal m with the MP4 format selected, while its own
\* isExporting is false: exportScenesAsVideo -> exportAsMP4 -> renderToWebM,
\* up to the await of the WebM blob
handleExportMP4(m) ==
  /\ convert[m].pc = "idle"
  /\ convert' = [convert EXCEPT ![m].pc = "renderToWebM"]
  /\ UNCHANGED ffmpeg

\* renderToWebM settles: a rejection ends the export, the blob goes to
\* convertToMP4, which runs getFFmpeg up to its first await
renderToWebMSettled(m, ok) ==
  /\ convert[m].pc = "renderToWebM"
  /\ IF ok
     THEN LET got == getFFmpeg(ffmpeg)
          IN /\ ffmpeg' = got.ffmpeg
             /\ convert' = [convert EXCEPT ![m].pc = "getFFmpeg",
                                           ![m].awaits = got.awaits]
     ELSE /\ convert' = [convert EXCEPT ![m].pc = "failed"]
          /\ UNCHANGED ffmpeg

\* the loading function of getFFmpeg settles: ffmpegLoaded = true, or the
\* promise in ffmpegLoading is rejected
loadSettled(ok) ==
  /\ ffmpeg.loading = "pending"
  /\ ffmpeg' = IF ok
               THEN [ffmpeg EXCEPT !.loaded = TRUE, !.loading = "resolved"]
               ELSE [ffmpeg EXCEPT !.loading = "rejected"]
  /\ UNCHANGED convert

\* `await getFFmpeg(onProgress)` in convertToMP4 settles: the caller has
\* ffmpegInstance, registers its progress handler and awaits
\* webmBlob.arrayBuffer(); or the rejected load ends the export
getFFmpegSettled(m) ==
  /\ convert[m].pc = "getFFmpeg"
  /\ convert[m].awaits = 0 \/ ffmpeg.loading \in {"resolved", "rejected"}
  /\ convert' =
       IF convert[m].awaits # 0 /\ ffmpeg.loading = "rejected"
       THEN [convert EXCEPT ![m].pc = "failed"]
       ELSE [convert EXCEPT ![m].pc = "arrayBuffer", ![m].engine = ffmpeg.instances]
  /\ UNCHANGED ffmpeg

\* the array buffer is there: ffmpeg.writeFile('input.webm', webmData) is called
writeFileCalled(m) ==
  /\ convert[m].pc = "arrayBuffer"
  /\ convert' = [convert EXCEPT ![m].pc = "writeFile"]
  /\ UNCHANGED ffmpeg

\* writeFile settles, ffmpeg.exec([...]) is called
writeFileSettled(m, ok) ==
  /\ convert[m].pc = "writeFile"
  /\ IF ok
     THEN /\ ffmpeg' = [ffmpeg EXCEPT !.files = @ \cup {"input.webm"}]
          /\ convert' = [convert EXCEPT ![m].pc = "exec"]
     ELSE /\ convert' = [convert EXCEPT ![m].pc = "failed"]
          /\ UNCHANGED ffmpeg

\* exec settles (it cannot succeed without its input file),
\* ffmpeg.readFile('output.mp4') is called
convertExecSettled(m, ok) ==
  /\ convert[m].pc = "exec"
  /\ ok => "input.webm" \in ffmpeg.files
  /\ IF ok
     THEN /\ ffmpeg' = [ffmpeg EXCEPT !.files = @ \cup {"output.mp4"}]
          /\ convert' = [convert EXCEPT ![m].pc = "readFile"]
     ELSE /\ convert' = [convert EXCEPT ![m].pc = "failed"]
          /\ UNCHANGED ffmpeg

\* readFile settles (a file that is not there cannot be read), the MP4 blob
\* is made and ffmpeg.deleteFile('input.webm') is called
readFileSettled(m, ok) ==
  /\ convert[m].pc = "readFile"
  /\ ok => "output.mp4" \in ffmpeg.files
  /\ convert' = [convert EXCEPT ![m].pc = IF ok THEN "deleteInput" ELSE "failed"]
  /\ UNCHANGED ffmpeg

\* deleteFile('input.webm') settles, deleteFile('output.mp4') is called
deleteInputSettled(m, ok) ==
  /\ convert[m].pc = "deleteInput"
  /\ ok => "input.webm" \in ffmpeg.files
  /\ IF ok
     THEN /\ ffmpeg' = [ffmpeg EXCEPT !.files = @ \ {"input.webm"}]
          /\ convert' = [convert EXCEPT ![m].pc = "deleteOutput"]
     ELSE /\ convert' = [convert EXCEPT ![m].pc = "failed"]
          /\ UNCHANGED ffmpeg

\* deleteFile('output.mp4') settles: convertToMP4 returns the MP4 blob
deleteOutputSettled(m, ok) ==
  /\ convert[m].pc = "deleteOutput"
  /\ ok => "output.mp4" \in ffmpeg.files
  /\ IF ok
     THEN /\ ffmpeg' = [ffmpeg EXCEPT !.files = @ \ {"output.mp4"}]
          /\ convert' = [convert EXCEPT ![m].pc = "done"]
     ELSE /\ convert' = [convert EXCEPT ![m].pc = "failed"]
          /\ UNCHANGED ffmpeg

\* handleExport's finally: setIsExporting(false)
handleExportFinally(m) ==
  /\ convert[m].pc \in {"done", "failed"}
  /\ convert' = [convert EXCEPT ![m] = NoConversion]
  /\ UNCHANGED ffmpeg

Transcode ==
  \/ \E m \in Modals : handleExportMP4(m)
  \/ \E m \in Modals, ok \in BOOLEAN : renderToWebMSettled(m, ok)
  \/ \E ok \in BOOLEAN : loadSettled(ok)
  \/ \E m \in Modals : getFFmpegSettled(m)
  \/ \E m \in Modals : writeFileCalled(m)
  \/ \E m \in Modals, ok \in BOOLEAN : writeFileSettled(m, ok)
  \/ \E m \in Modals, ok \in BOOLEAN : convertExecSettled(m, ok)
  \/ \E m \in Modals, ok \in BOOLEAN : readFileSettled(m, ok)
  \/ \E m \in Modals, ok \in BOOLEAN : deleteInputSettled(m, ok)
  \/ \E m \in Modals, ok \in BOOLEAN : deleteOutputSettled(m, ok)
  \/ \E m \in Modals : handleExportFinally(m)

NextTranscode ==
  Transcode /\ UNCHANGED <<storeVars, lastOp, hookVars, export, modal, cameraVars, viewVars>>

SpecTranscode == Init /\ [][NextTranscode]_vars

\* --------------------------------- the engine's progress handlers
\* the export of a modal that a handler belongs to has settled: a later
\* export was started from the modal, or the modal's export has returned
\* its blob, thrown its error, or handleExport has finished
Settled(h) ==
  \/ handlers.exports[h.modal] > h.export
  \/ convert[h.modal].pc \in {"idle", "done", "failed"}

\* what a step of the conversions does to the handlers: handleExport starts
\* a modal's next export; convertToMP4 318-320, reached when `await
\* getFFmpeg(onProgress)` returns the engine, registers that export's
\* handler on the engine, where every earlier one still is
RegisterHandlers ==
  handlers' =
    [handlers EXCEPT
       !.exports = [m \in Modals |->
                      IF convert[m].pc = "idle" /\ convert'[m].pc = "renderToWebM"
                      THEN @[m] + 1 ELSE @[m]],
       !.registered =
         IF \E m \in Modals :
              convert[m].pc = "getFFmpeg" /\ convert'[m].pc = "arrayBuffer"
         THEN LET m == CHOOSE m \in Modals :
                         convert[m].pc = "getFFmpeg" /\ convert'[m].pc = "arrayBuffer"
              IN Append(@, [modal |-> m, export |-> handlers.exports[m]])
         ELSE @]

\* the engine emits 'progress' while an exec runs: every registered handler
\* is called, and each calls the onProgress it closed over
engineProgress ==
  /\ \E m \in Modals : convert[m].pc = "exec"
  /\ handlers' =
       [handlers EXCEPT
          !.late = @ \cup {handlers.registered[i] :
                             i \in {j \in DOMAIN handlers.registered :
                                      Settled(handlers.registered[j])}}]
  /\ UNCHANGED <<convert, ffmpeg>>

ConvertAndReport ==
  \/ /\ Transcode
     /\ RegisterHandlers
     /\ \A m \in Modals : handlers'.exports[m] <= MaxExports
  \/ engineProgress

NextHandlers ==
  /\ ConvertAndReport
  /\ UNCHANGED <<storeVars, lastOp, hookVars, export, modal, cameraVars, layers,
                 mounted, animationFrame, transition>>

SpecHandlers == Init /\ [][NextHandlers]_vars

\* ------------------------------------------------------- the export modal
Min(a, b) == IF a < b THEN a ELSE b

RESOLUTION_MAP(resolution) ==
  CASE resolution = "720p" -> [width |-> 1280, height |-> 720]
    [] resolution = "1080p" -> [width |-> 1920, height |-> 1080]
    [] resolution = "4k" -> [width |-> 3840, height |-> 2160]

\* EXPORT_PRESETS, the four settings of each
EXPORT_PRESETS ==
  [id \in {"twitter-landscape", "twitter-square", "instagram-square",
           "instagram-story", "youtube", "producthunt"} |->
     CASE id = "twitter-landscape" ->
            [format |-> "mp4", resolution |-> "1080p", aspectRatio |-> "16:9", fps |-> 30]
       [] id \in {"twitter-square", "instagram-square"} ->
            [format |-> "mp4", resolution |-> "1080p", aspectRatio |-> "1:1", fps |-> 30]
       [] id = "instagram-story" ->
            [format |-> "mp4", resolution |-> "1080p", aspectRatio |-> "9:16", fps |-> 30]
       [] id = "youtube" ->
            [format |-> "mp4", resolution |-> "1080p", aspectRatio |-> "16:9", fps |-> 60]
       [] id = "producthunt" ->
            [format |-> "gif", resolution |-> "720p", aspectRatio |-> "16:9", fps |-> 30]]

\* what the modal's controls pass to handleSettingChange: the format buttons
\* (FORMAT_OPTIONS has no MP4), the resolution, aspect ratio and fps selects
SettingChanges ==
  ({"format"} \X {"webm", "gif"})
    \cup ({"resolution"} \X {"720p", "1080p", "4k"})
    \cup ({"aspectRatio"} \X {"16:9", "1:1", "9:16", "4:3"})
    \cup ({"fps"} \X {30, 60})

getOutputDimensions(settings) ==
  LET base == RESOLUTION_MAP(settings.resolution)
  IN CASE settings.aspectRatio = "16:9" -> base
       [] settings.aspectRatio = "1:1" ->
            [width |-> Min(base.width, base.height),
             height |-> Min(base.width, base.height)]
       [] settings.aspectRatio = "9:16" ->
            [width |-> base.height, height |-> base.width]
       [] settings.aspectRatio = "4:3" ->
            [width |-> (base.height * 4) \div 3, height |-> base.height]

\* the "Output Info" line of the modal: the dimensions and the frame rate
OutputInfo(settings) ==
  LET dimensions == getOutputDimensions(settings)
  IN IF settings.format = "gif"
     THEN [width |-> Min(dimensions.width, 800),
           height |-> MathRound(Min(dimensions.width, 800) * dimensions.height,
                                dimensions.width),
           fps |-> Min(settings.fps, GIF_MAX_FPS)]
     ELSE [width |-> dimensions.width, height |-> dimensions.height,
           fps |-> settings.fps]

\* exportAsGIF at the requested size and frame rate
gifCanvas_asRequested(options) ==
  [width |-> options.width, height |-> options.height, fps |-> options.fps]

\* exportAsGIF's gifWidth, gifHeight and gifFps
gifCanvas(options) ==
  LET gifWidth == Min(options.width, 800)
  IN [width |-> gifWidth,
      height |-> MathRound(gifWidth * options.height, options.width),
      fps |-> Min(options.fps, GIF_MAX_FPS)]

\* the canvas and frame rate exportScenesAsVideo draws at: exportAsGIF's, or
\* renderToWebM's
exportCanvas(options) ==
  IF options.format = "gif" THEN gifCanvas(options)
  ELSE [width |-> options.width, height |-> options.height, fps |-> options.fps]

\* the type of the blob exportScenesAsVideo resolves with: renderToWebM's
\* new Blob(chunks, { type: 'video/webm' }), convertToMP4's
\* new Blob([mp4Data], { type: 'video/mp4' }), gif.js's image/gif
blobType(format) ==
  CASE format = "gif" -> "image/gif"
    [] format = "mp4" -> "video/mp4"
    [] OTHER -> "video/webm"

\* const extension = format === 'gif' ? 'gif' : 'webm'
extension(format) == IF format = "gif" THEN "gif" ELSE "webm"

handleSettingChange(key, value) ==
  modal' = [modal EXCEPT !.settings = [@ EXCEPT ![key] = value]]

handlePresetSelect(presetId) ==
  modal' = [modal EXCEPT !.settings = EXPORT_PRESETS[presetId]]

\* the Export button (disabled while isExporting) with scenes that have
\* images: handleExport up to `await exportScenesAsVideo(...)`
handleExport ==
  /\ ~modal.isExporting
  /\ LET dimensions == getOutputDimensions(modal.settings)
         options == [width |-> dimensions.width, height |-> dimensions.height,
                     fps |-> modal.settings.fps, format |-> modal.settings.format]
     IN modal' = [modal EXCEPT !.isExporting = TRUE,
                               !.exportError = NoError,
                               !.shown = OutputInfo(modal.settings),
                               !.options = options,
                               !.canvas = exportCanvas(options),
                               !.download = NoFile,
                               !.outcome = "pending"]

\* what handleExport's catch block shows for a thrown value:
\* error instanceof Error ? error.message : 'Export failed'
ErrorMessage(thrown) ==
  IF thrown.isError THEN thrown.message ELSE "Export failed"

\* what exportScenesAsVideo can reject with, stage by stage: no scenes, an
\* image that does not load, no VP9 recorder, a failed MP4 conversion, and a
\* value that is no Error (a MediaRecorder error event)
Rejections ==
  {[isError |-> TRUE, message |-> NoScenesError],
   [isError |-> TRUE, message |-> ImageLoadError],
   [isError |-> TRUE, message |-> UnsupportedError],
   [isError |-> TRUE, message |-> TryWebMError],
   [isError |-> FALSE, message |-> ""]}

\* the Export button with scenes none of which has an image: the throw in
\* the try block, then catch and finally, all in the one call
handleExportWithoutImages ==
  /\ ~modal.isExporting
  /\ modal' = [modal EXCEPT
                 !.isExporting = FALSE,
                 !.exportError =
                   "No valid scenes to export. Make sure scenes have images.",
                 !.download = NoFile,
                 !.outcome = "rejected"]

\* exportScenesAsVideo resolves: downloadBlob(blob, filename), then the
\* 300 ms delay
exportResolved ==
  /\ modal.isExporting
  /\ modal.download = NoFile
  /\ modal' = [modal EXCEPT !.download =
                 [type |-> blobType(modal.options.format),
                  extension |-> extension(modal.options.format)],
                             !.outcome = "downloaded"]

\* the catch block without the finally block after it
exportRejected_withoutFinally(thrown) ==
  /\ modal.isExporting
  /\ modal.download = NoFile
  /\ modal' = [modal EXCEPT !.exportError = ErrorMessage(thrown),
                             !.outcome = "rejected"]

\* exportScenesAsVideo rejects: catch, finally
exportRejected(thrown) ==
  /\ modal.isExporting
  /\ modal.download = NoFile
  /\ modal' = [modal EXCEPT !.isExporting = FALSE,
                             !.exportError = ErrorMessage(thrown),
                             !.outcome = "rejected"]

\* the delay is over: onClose(), finally
closeAfterDownload ==
  /\ modal.isExporting
  /\ modal.download # NoFile
  /\ modal' = [modal EXCEPT !.isExporting = FALSE, !.outcome = "closed"]

UseModal ==
  \/ \E change \in SettingChanges : handleSettingChange(change[1], change[2])
  \/ \E id \in DOMAIN EXPORT_PRESETS : handlePresetSelect(id)
  \/ handleExport
  \/ handleExportWithoutImages
  \/ exportResolved
  \/ \E thrown \in Rejections : exportRejected(thrown)
  \/ closeAfterDownload

NextModal ==
  UseModal /\ UNCHANGED <<storeVars, lastOp, hookVars, exportVars, convert, cameraVars, viewVars>>

SpecModal == Init /\ [][NextModal]_vars

\* ------------------------------------------------- the two camera states
\* Progress is in hundredths here (sceneProgress = p / 100), so progress / 0.2
\* and (progress - 0.8) / 0.2 are in twentieths; an eased value and a camera
\* offset are kept exact in units of 1/8000 (20^3).
EaseUnit == 8000

\* the cameras a scene of the preview can have: none, or offsets the
\* camera controls can set (-200..200)
PreviewCameras ==
  {NoCamera,
   [moveOffsetX |-> 40, moveOffsetY |-> -30],
   [moveOffsetX |-> -200, moveOffsetY |-> 200],
   [moveOffsetX |-> 200, moveOffsetY |-> 0]}
\* scene progress values: the ends, the two phase boundaries and their
\* neighbours, points inside each phase
PreviewProgress == {0, 5, 10, 19, 20, 21, 50, 79, 80, 81, 85, 90, 95, 100}
PreviewScenes ==
  UNION {[1..n -> [camera : PreviewCameras, zDepth : {NoZDepth}]] :
           n \in 1..MaxPreviewScenes}

\* DEFAULT_SECTION_CAMERA, its two offsets
DEFAULT_SECTION_CAMERA == [moveOffsetX |-> 0, moveOffsetY |-> 0]

\* easeOutCubic(t) = 1 - Math.pow(1 - t, 3), t in twentieths
easeOutCubic(t) == EaseUnit - (20 - t) * (20 - t) * (20 - t)

\* easeInOutCubic with its second branch alone
easeInOutCubic_secondBranchOnly(t) ==
  EaseUnit - ((40 - 2 * t) * (40 - 2 * t) * (40 - 2 * t)) \div 2

\* easeInOutCubic(t) = t < 0.5 ? 4 * t * t * t : 1 - Math.pow(-2 * t + 2, 3) / 2,
\* t in twentieths
easeInOutCubic(t) ==
  IF 2 * t < 20
  THEN 4 * t * t * t
  ELSE EaseUnit - ((40 - 2 * t) * (40 - 2 * t) * (40 - 2 * t)) \div 2

\* the renderer's phase with 0.2 counted as entering
rendererPhase_entersAtBoundary(progress) ==
  IF progress <= 20 THEN "enter"
  ELSE IF progress > 80 THEN "exit"
  ELSE "hold"

\* camera-scene-renderer.tsx getCameraState, "Determine transition phase"
rendererPhase(progress) ==
  IF progress < 20 THEN "enter"
  ELSE IF progress > 80 THEN "exit"
  ELSE "hold"

\* use-playback.ts getCameraState, "Determine transition phase"
hookPhase(sceneProgress) ==
  IF sceneProgress < 20 THEN "enter"
  ELSE IF sceneProgress > 80 THEN "exit"
  ELSE "hold"

\* the renderer's three offset formulas for one axis: entering, exiting
\* (nextOffset is nextCamera?.moveOffset ?? 0), holding
rendererEnterOffset(offset, progress) == offset * easeOutCubic(progress)
rendererExitOffset(offset, nextOffset, progress) ==
  offset * EaseUnit + (nextOffset - offset) * easeInOutCubic(progress - 80)
rendererHoldOffset(offset) == offset * EaseUnit

\* getCameraState(scenes, currentIndex, progress, globalCamera) of
\* camera-scene-renderer.tsx, for a currentIndex below scenes.length
rendererGetCameraState(scs, currentIndex, progress, spacing) ==
  IF Len(scs) = 0 \/ currentIndex < 0
  THEN [targetZ |-> 0, targetX |-> 0, targetY |-> 0, transitionPhase |-> "hold"]
  ELSE
    LET currentScene == scs[currentIndex + 1]
        currentZ == IF currentScene.zDepth # NoZDepth THEN currentScene.zDepth
                    ELSE -currentIndex * spacing
        camera == currentScene.camera
        transitionPhase == rendererPhase(progress)
        nextCamera == IF currentIndex + 2 \in DOMAIN scs
                      THEN scs[currentIndex + 2].camera ELSE NoCamera
        nextOffsetX == IF nextCamera # NoCamera THEN nextCamera.moveOffsetX ELSE 0
        nextOffsetY == IF nextCamera # NoCamera THEN nextCamera.moveOffsetY ELSE 0
        offset(own, next) ==
          IF transitionPhase = "enter" THEN rendererEnterOffset(own, progress)
          ELSE IF transitionPhase = "exit" THEN rendererExitOffset(own, next, progress)
          ELSE rendererHoldOffset(own)
    IN [targetZ |-> currentZ,
        targetX |-> IF camera = NoCamera THEN 0
                    ELSE offset(camera.moveOffsetX, nextOffsetX),
        targetY |-> IF camera = NoCamera THEN 0
                    ELSE offset(camera.moveOffsetY, nextOffsetY),
        transitionPhase |-> transitionPhase]

\* getCameraState() of use-playback.ts from the scene index and progress that
\* getCurrentScene and findIndex gave it; enterProgress and exitProgress are
\* sceneProgress / 0.2 and (sceneProgress - 0.8) / 0.2, EaseUnit / 20 units
\* per twentieth
hookGetCameraState(scs, sceneIndex, sceneProgress, spacing) ==
  LET scene == scs[sceneIndex + 1]
      transitionPhase == hookPhase(sceneProgress)
      targetZ == IF scene.zDepth # NoZDepth THEN scene.zDepth
                 ELSE -sceneIndex * spacing
      camera == IF scene.camera # NoCamera THEN scene.camera
                ELSE DEFAULT_SECTION_CAMERA
      hasNext == sceneIndex + 2 \in DOMAIN scs
      nextCamera == IF hasNext /\ scs[sceneIndex + 2].camera # NoCamera
                    THEN scs[sceneIndex + 2].camera ELSE DEFAULT_SECTION_CAMERA
      perTwentieth == EaseUnit \div 20
      target(own, next) ==
        IF transitionPhase = "enter" THEN own * sceneProgress * perTwentieth
        ELSE IF transitionPhase = "exit" /\ hasNext
        THEN own * EaseUnit + (next - own) * (sceneProgress - 80) * perTwentieth
        ELSE own * EaseUnit
  IN [targetZ |-> targetZ,
      targetX |-> target(camera.moveOffsetX, nextCamera.moveOffsetX),
      targetY |-> target(camera.moveOffsetY, nextCamera.moveOffsetY),
      transitionPhase |-> transitionPhase]

\* a preview of some scenes at some position, before either camera state is
\* computed
InitPreview ==
  /\ InitEditor
  /\ InitView
  /\ \E scs \in PreviewScenes, progress \in PreviewProgress :
       \E index \in 0..(Len(scs) - 1) :
         preview = [NoPreview EXCEPT !.scenes = scs, !.currentSceneIndex = index,
                                     !.sceneProgress = progress]

\* CameraSceneRenderer renders: its useMemo calls getCameraState
renderCameraScene ==
  /\ preview.renderer = NoCameraState
  /\ preview' = [preview EXCEPT !.renderer =
                   rendererGetCameraState(preview.scenes, preview.currentSceneIndex,
                                          preview.sceneProgress, zSpacing)]

\* a component calls usePlayback().getCameraState()
callGetCameraState ==
  /\ preview.hook = NoCameraState
  /\ preview' = [preview EXCEPT !.hook =
                   hookGetCameraState(preview.scenes, preview.currentSceneIndex,
                                      preview.sceneProgress, zSpacing)]

NextPreview ==
  (renderCameraScene \/ callGetCameraState)
    /\ UNCHANGED <<storeVars, lastOp, hookVars, exportVars, modalVars,
                   zSpacing, zDepth, zTimers, viewVars>>

SpecPreview == InitPreview /\ [][NextPreview]_vars

\* ------------------------------------------------ the scenes' stored depth
\* the Layer Spacing slider: 400 to 1200
ZSpacingArgs == {400, 1200}

\* style.globalCamera.zSpacing
StyleZSpacing(styleId) ==
  CASE styleId = "product-hunt" -> 700
    [] styleId = "dynamic" -> 900
    [] styleId = "minimal" -> 500
    [] styleId = "social" -> 1000

\* a store action that spreads the scenes it keeps ({ ...s, order: i }) and
\* gives the scenes it creates no zDepth
KeepingZDepth(storeAction) ==
  /\ storeAction
  /\ zDepth' = [id \in {scenes'[i].id : i \in DOMAIN scenes'} |->
                  IF id \in SceneIdsInUse THEN zDepth[id] ELSE NoZDepth]
  /\ UNCHANGED <<zSpacing, zTimers>>

\* zDepth: -index * zSpacing for the scenes from position `first` on (index
\* counted from there), the stored depth for the scenes before it
DepthByIndex(scs, first, spacing) ==
  [id \in {scs[i].id : i \in DOMAIN scs} |->
     LET i == CHOOSE k \in DOMAIN scs : scs[k].id = id
     IN IF i >= first THEN -(i - first) * spacing ELSE zDepth[id]]

\* generateVideoFromSections with its camera part: each scene's zDepth from
\* the spacing read at the start, the style's globalCamera merged into the
\* settings, and setTimeout(calculateSceneZDepths, 50)
generateVideoWithCamera(page, sectionIds, styleId, base) ==
  /\ zTimers < MaxZTimers
  /\ generateVideoFromSections(page, sectionIds, styleId, base)
  /\ zDepth' = DepthByIndex(scenes', 1, zSpacing)
  /\ zSpacing' = StyleZSpacing(styleId)
  /\ zTimers' = zTimers + 1

\* addManualScreens with its camera part: zDepth = -i * zSpacing, i the
\* index of the file
addManualScreensWithCamera(n, styleId, base) ==
  /\ addManualScreens(n, styleId, base)
  /\ zDepth' = DepthByIndex(scenes', Len(scenes) + 1, zSpacing)
  /\ UNCHANGED <<zSpacing, zTimers>>

\* updateGlobalCamera({ zSpacing })
updateGlobalCamera(spacing) ==
  /\ zSpacing' = spacing
  /\ UNCHANGED <<storeVars, lastOp, zDepth, zTimers>>

\* the timer of generateVideoFromSections fires: calculateSceneZDepths()
calculateSceneZDepths ==
  /\ zTimers > 0
  /\ zDepth' = DepthByIndex(scenes, 1, zSpacing)
  /\ zTimers' = zTimers - 1
  /\ UNCHANGED <<storeVars, lastOp, zSpacing>>

MoveCamera ==
  \/ KeepingZDepth(\E images \in ScreenImages : addSceneFromScreen(images))
  \/ KeepingZDepth(\E id \in SceneIds : removeScene(id))
  \/ KeepingZDepth(\E a, o \in SceneIds : handleDragEnd(a, o))
  \/ \E sel \in SUBSET {1, 2}, st \in StyleIds, d \in BaseDurationArgs :
       generateVideoWithCamera(ThePage, sel, st, d)
  \/ \E n \in 1..MaxFiles, st \in StyleIds, d \in BaseDurationArgs :
       addManualScreensWithCamera(n, st, d)
  \/ \E spacing \in ZSpacingArgs : updateGlobalCamera(spacing)
  \/ calculateSceneZDepths

NextCamera ==
  MoveCamera /\ UNCHANGED <<hookVars, exportVars, modalVars, preview, viewVars>>

SpecCamera == Init /\ [][NextCamera]_vars

\* the scenes as the camera calculators read them: each with its stored depth
ScenesWithDepth ==
  [i \in DOMAIN scenes |-> [camera |-> NoCamera, zDepth |-> zDepth[scenes[i].id]]]

\* ------------------------------------------- usePlayback, mounted twice
\* Canvas and Timeline each call usePlayback(): each has its own refs and its
\* own requestAnimationFrame loop, and both write the store's currentTime.
\* A commit's passive effects run for both components together.

\* a user event is a task of its own: it is not handled while the callbacks
\* of an animation frame are being run
BetweenFrames(userAction) ==
  /\ animationFrame.callbacks = {}
  /\ userAction

\* the passive effects of both usePlayback() instances: the ref syncs, then
\* the animation-loop effect (its cleanup, then its body) when isPlaying
\* changed; cancelAnimationFrame also drops a callback of the frame being run
flushMountedEffects ==
  /\ effectsPending
  /\ mounted' =
       [c \in Components |->
          LET h == mounted[c]
              synced == [h EXCEPT !.currentTimeRef = currentTime,
                                  !.totalDurationRef = useTotalDuration(scenes),
                                  !.isPlayingRef = isPlaying,
                                  !.projectRef = scenes]
          IN IF isPlaying = h.isPlayingRef THEN synced
             ELSE IF ~isPlaying
             THEN [synced EXCEPT !.requested = FALSE, !.lastTimeRef = 0]
             ELSE IF Len(scenes) = 0 THEN [synced EXCEPT !.requested = FALSE]
             ELSE [synced EXCEPT !.requested = TRUE]]
  /\ animationFrame' =
       [animationFrame EXCEPT
          !.callbacks = {c \in @ : mounted'[c].requested},
          !.continued = @ /\ \A c \in animationFrame.callbacks : mounted'[c].requested]
  /\ effectsPending' = FALSE
  /\ UNCHANGED <<storeVars, lastOp, currentTimeRef, totalDurationRef, isPlayingRef,
                 projectRef, lastTimeRef, frameRequested, tick, exportVars,
                 modalVars, cameraVars, layers, transition, handlers>>

\* the browser starts an animation frame delta ms after the last one: the
\* callbacks requested so far will run with its timestamp. playing and
\* startTime are the store's isPlaying and currentTime as the frame begins,
\* elapsed is the time since the previous frame (0 when the callbacks'
\* lastTimeRef is 0: the first frame after play), continued tells that every
\* callback run so far went on with playback
beginFrame(delta) ==
  /\ animationFrame.callbacks = {}
  /\ \E c \in Components : mounted[c].requested
  /\ animationFrame.timestamp + delta <= MaxTimestamp
  /\ animationFrame' = [ran |-> TRUE, timestamp |-> animationFrame.timestamp + delta,
               callbacks |-> {c \in Components : mounted[c].requested},
               playing |-> isPlaying, startTime |-> currentTime, continued |-> TRUE,
               tick |-> animationFrame.tick,
               elapsed |-> IF \A c \in Components :
                                mounted[c].requested => mounted[c].lastTimeRef # 0
                           THEN delta ELSE 0]
  /\ UNCHANGED <<storeVars, lastOp, hookVars, exportVars, modalVars, cameraVars,
                 layers, mounted, transition, handlers>>

\* animate(timestamp) of the usePlayback() mounted by component c
animateOf(c) ==
  /\ c \in animationFrame.callbacks
  /\ LET h == mounted[c]
         timestamp == animationFrame.timestamp
         lastTime == IF h.lastTimeRef = 0 THEN timestamp ELSE h.lastTimeRef
         delta == timestamp - lastTime
         newTime == h.currentTimeRef + delta
         duration == h.totalDurationRef
     IN IF ~h.isPlayingRef
        THEN /\ mounted' = [mounted EXCEPT ![c].lastTimeRef = 0, ![c].requested = FALSE]
             /\ UNCHANGED <<storeVars, effectsPending>>
        ELSE IF Len(h.projectRef) = 0
        THEN /\ isPlaying' = FALSE
             /\ mounted' = [mounted EXCEPT ![c].lastTimeRef = 0, ![c].requested = FALSE]
             /\ effectsPending' = (effectsPending \/ isPlaying)
             /\ UNCHANGED <<screens, scenes, selectedSceneId, currentTime>>
        ELSE IF duration > 0 /\ newTime >= duration
        THEN /\ currentTime' = 0
             /\ isPlaying' = FALSE
             /\ mounted' = [mounted EXCEPT ![c].lastTimeRef = 0, ![c].requested = FALSE]
             /\ effectsPending' =
                  (effectsPending \/ currentTime # 0 \/ isPlaying)
             /\ UNCHANGED <<screens, scenes, selectedSceneId>>
        ELSE /\ newTime <= MaxTime
             /\ currentTime' = newTime
             /\ mounted' = [mounted EXCEPT ![c].lastTimeRef = timestamp,
                                           ![c].requested = TRUE]
             /\ effectsPending' = (effectsPending \/ currentTime # newTime)
             /\ UNCHANGED <<screens, scenes, selectedSceneId, isPlaying>>
  /\ animationFrame' =
       [animationFrame EXCEPT
          !.callbacks = @ \ {c},
          !.continued = @ /\ mounted'[c].requested,
          !.tick = IF mounted[c].isPlayingRef /\ Len(mounted[c].projectRef) > 0
                   THEN [ran |-> TRUE,
                         newTime |-> mounted[c].currentTimeRef + animationFrame.timestamp
                                       - (IF mounted[c].lastTimeRef = 0
                                          THEN animationFrame.timestamp
                                          ELSE mounted[c].lastTimeRef),
                         total |-> useTotalDuration(scenes),
                         stopped |-> /\ currentTime' = 0
                                     /\ ~isPlaying'
                                     /\ ~mounted'[c].requested]
                   ELSE @]
  /\ UNCHANGED <<lastOp, currentTimeRef, totalDurationRef, isPlayingRef, projectRef,
                 lastTimeRef, frameRequested, tick, exportVars, modalVars,
                 cameraVars, layers, transition, handlers>>

NextMounted ==
  \/ BetweenFrames(WithRender(addSceneFromScreen(<<"img", "thumb">>)))
  \/ BetweenFrames(WithRender(\E id \in SceneIds, d \in DurationArgs :
                                updateSceneDuration(id, d)))
  \/ BetweenFrames(WithRender(play))
  \/ BetweenFrames(WithRender(pause))
  \/ flushMountedEffects
  \/ \E delta \in FrameDeltas : beginFrame(delta)
  \/ \E c \in Components : animateOf(c)

SpecMounted == Init /\ [][NextMounted]_vars

\* ------------------------------------------------ the layers' depth metrics
\* what CameraSceneRenderer is rendered with: scenes with or without a screen
\* and a stored depth, a zSpacing (0, a slider value, a style's value), and
\* the depth-of-field settings (aperture in tenths: the slider steps by 0.1)
LayerSpacings == {0, 400, 700}
LayerDepths == {NoZDepth, -700}
LayerApertures == {10, 20, 100}
LayerMaxBlurs == {0, 8, 20}
LayerDistances == {-1400, -700, -350, 0, 100, 700, 2100}
LayerScenes ==
  UNION {[1..n -> [camera : {NoCamera}, zDepth : LayerDepths,
                   hasScreen : BOOLEAN]] : n \in 1..MaxLayerScenes}
LayerDofs ==
  [enabled : BOOLEAN, aperture : LayerApertures, maxBlur : LayerMaxBlurs]

\* a JavaScript number: a rational num/den (den > 0), or what a division by
\* zero gives
Finite(num, den) == [kind |-> "finite", num |-> num, den |-> den]
NaN == [kind |-> "NaN", num |-> 0, den |-> 1]
Infinity == [kind |-> "Infinity", num |-> 0, den |-> 1]

\* Math.abs
MathAbs(x) == IF x < 0 THEN -x ELSE x

\* a / b for a >= 0 and b >= 0: 0 / 0 is NaN, a / 0 is Infinity
Divide(a, b) ==
  IF b # 0 THEN Finite(a, b)
  ELSE IF a = 0 THEN NaN
  ELSE Infinity

\* Math.min and Math.max of two finite numbers
MathMin(a, b) == IF a.num * b.den <= b.num * a.den THEN a ELSE b
MathMax(a, b) == IF a.num * b.den >= b.num * a.den THEN a ELSE b

\* calculateBlur without the clamp to maxBlur
calculateBlur_unclamped(distanceFromFocus, spacing, aperture, maxBlur, enabled) ==
  IF ~enabled \/ spacing = 0 THEN Finite(0, 1)
  ELSE LET normalizedDistance == Divide(MathAbs(distanceFromFocus), spacing)
       IN Finite(normalizedDistance.num * aperture * maxBlur,
                 normalizedDistance.den * 10)

\* calculateBlur(distanceFromFocus, zSpacing, aperture, maxBlur, enabled),
\* zSpacing >= 0, aperture in tenths
calculateBlur(distanceFromFocus, spacing, aperture, maxBlur, enabled) ==
  IF ~enabled \/ spacing = 0 THEN Finite(0, 1)
  ELSE LET normalizedDistance == Divide(MathAbs(distanceFromFocus), spacing)
       IN MathMin(Finite(normalizedDistance.num * aperture * maxBlur,
                         normalizedDistance.den * 10),
                  Finite(maxBlur, 1))

\* normalizedDistance = Math.abs(distanceFromFocus) / (zSpacing * 2) and
\* opacity = Math.max(0.4, 1 - normalizedDistance * 0.3). 1 - NaN * 0.3 is
\* NaN and Math.max(0.4, NaN) is NaN; 1 - Infinity * 0.3 is -Infinity
layerOpacity(distanceFromFocus, spacing) ==
  LET normalizedDistance == Divide(MathAbs(distanceFromFocus), spacing * 2)
  IN IF normalizedDistance.kind = "NaN" THEN NaN
     ELSE IF normalizedDistance.kind = "Infinity" THEN Finite(4, 10)
     ELSE MathMax(Finite(4, 10),
                  Finite(10 * normalizedDistance.den - 3 * normalizedDistance.num,
                         10 * normalizedDistance.den))

\* visibleSceneIndices: current - 2 .. current + 2 inside the list
visibleSceneIndices(scs, currentSceneIndex) ==
  {i \in 0..(Len(scs) - 1) : currentSceneIndex - 2 <= i /\ i <= currentSceneIndex + 2}

\* the SectionLayer elements CameraSceneRenderer returns, keyed by scene
\* index: none without scenes, the one scene flat when there is one, else
\* each visible scene that has a screen with its depth metrics
SectionLayers(props) ==
  LET scs == props.scenes
      spacing == props.globalCamera.zSpacing
      cameraState == rendererGetCameraState(scs, props.currentSceneIndex,
                                            props.sceneProgress, props.globalCamera.zSpacing)
      sceneZ(index) == IF scs[index + 1].zDepth # NoZDepth THEN scs[index + 1].zDepth
                       ELSE -index * spacing
      distanceFromFocus(index) == sceneZ(index) - cameraState.targetZ
  IN IF Len(scs) = 0 THEN << >>
     ELSE IF Len(scs) = 1
     THEN IF scs[1].hasScreen
          THEN [index \in {0} |->
                  [zPosition |-> 0, distanceFromFocus |-> 0,
                   blur |-> Finite(0, 1), opacity |-> Finite(1, 1)]]
          ELSE << >>
     ELSE [index \in {i \in visibleSceneIndices(scs, props.currentSceneIndex) :
                        scs[i + 1].hasScreen} |->
             [zPosition |-> sceneZ(index),
              distanceFromFocus |-> distanceFromFocus(index),
              blur |-> calculateBlur(distanceFromFocus(index), spacing,
                                     props.dof.aperture, props.dof.maxBlur,
                                     props.dof.enabled),
              opacity |-> layerOpacity(distanceFromFocus(index), spacing)]]

\* the props of one render of CameraSceneRenderer, before it renders
InitLayers ==
  /\ InitEditor
  /\ preview = NoPreview
  /\ mounted = [c \in Components |-> NewHook]
  /\ animationFrame = NoFrame
  /\ transition = NoTransition
  /\ handlers = NoHandlers
  /\ \E scs \in LayerScenes, spacing \in LayerSpacings, dof \in LayerDofs :
       \E index \in 0..(Len(scs) - 1) :
         layers = [NoLayerProps EXCEPT !.scenes = scs, !.currentSceneIndex = index,
                                       !.sceneProgress = 50,
                                       !.globalCamera = [zSpacing |-> spacing],
                                       !.dof = dof]

\* CameraSceneRenderer renders
renderCameraLayers ==
  /\ layers.sectionLayers = NoLayers
  /\ layers' = [layers EXCEPT !.sectionLayers =
                  [rendered |-> TRUE, layer |-> SectionLayers(layers)]]

\* calculateBlur is called with a distance of its own
callCalculateBlur(distance) ==
  /\ layers.globalCamera.zSpacing > 0
  /\ Len(layers.blurs) = 0
  /\ layers' = [layers EXCEPT !.blurs =
                  <<[distance |-> distance,
                     blur |-> calculateBlur(distance, layers.globalCamera.zSpacing,
                                            layers.dof.aperture, layers.dof.maxBlur,
                                            layers.dof.enabled)]>>]

NextLayers ==
  (renderCameraLayers \/ \E distance \in LayerDistances : callCalculateBlur(distance))
    /\ UNCHANGED <<storeVars, lastOp, hookVars, exportVars, modalVars, cameraVars,
                   mounted, animationFrame, transition, handlers>>

SpecLayers == InitLayers /\ [][NextLayers]_vars

\* ------------------------------------------- the preview's scene transitions
\* milliseconds the clock advances by in one step
ClockSteps == {100, 300}
\* where the user seeks to while the preview runs
TransitionSeeks == {0, 2900, 3100}

\* the scene-change effect (use-playback.ts 126-170) at clock time tr.now
sceneChangeEffect(tr, scs, scrs, time) ==
  LET current == getSceneAtTime(scs, scrs, time)
      currentSceneId == current.scene.id
      prevSceneId == tr.previousSceneIdRef
      found == \E i \in DOMAIN scs : scs[i].id = prevSceneId
      prevScene == scs[CHOOSE i \in DOMAIN scs :
                         /\ scs[i].id = prevSceneId
                         /\ \A j \in DOMAIN scs : scs[j].id = prevSceneId => i <= j]
  IN IF current = NoSceneData
     THEN [tr EXCEPT !.previousSceneIdRef = NULL]
     ELSE IF prevSceneId # NULL /\ prevSceneId # currentSceneId /\ found
     THEN LET transitionDuration == previewTransitionDuration(current.scene, prevScene)
          IN [tr EXCEPT
                !.transitionState = [isTransitioning |-> TRUE,
                                     previousScene |-> prevScene.id],
                !.timers = @ \cup {tr.now + transitionDuration},
                !.started = [watching |-> TRUE, at |-> tr.now,
                             length |-> transitionDuration, left |-> prevScene.id],
                !.previousSceneIdRef = currentSceneId]
     ELSE [tr EXCEPT !.previousSceneIdRef = currentSceneId]

\* the animation effect's cleanup (230-242), run when isPlaying turns false
\* after a run that started the loop
animationCleanup(tr) ==
  [tr EXCEPT !.transitionState = NotTransitioning, !.started.watching = FALSE]

\* the passive effects of the commit that follows a store update: cleanups
\* first, then the scene-change effect when one of its dependencies changed
commitTransitionEffects(tr) ==
  LET cleaned == IF isPlaying /\ ~isPlaying' /\ Len(scenes) > 0
                 THEN animationCleanup(tr) ELSE tr
  IN IF currentTime' # currentTime \/ scenes' # scenes \/ screens' # screens
     THEN sceneChangeEffect(cleaned, scenes', screens', currentTime')
     ELSE cleaned

\* every timer that is due has fired before anything else runs
NoTimerDue(tr, at) == \A due \in tr.timers : due >= at

\* a store action from the editor while the preview is mounted
InPreview(storeAction) ==
  /\ NoTimerDue(transition, transition.now + 1)
  /\ storeAction
  /\ transition' = commitTransitionEffects(transition)
  /\ UNCHANGED <<hookVars, exportVars, modalVars, cameraVars, layers, mounted,
                 animationFrame, handlers>>

\* the animation frames of delta ms of playback: the playhead advances, or
\* at the end of the timeline goes back to 0 and playback pauses
playFor(delta) ==
  /\ isPlaying
  /\ Len(scenes) > 0
  /\ transition.now + delta <= MaxClock
  /\ NoTimerDue(transition, transition.now + delta)
  /\ LET newTime == currentTime + delta
         total == useTotalDuration(scenes)
     IN IF total > 0 /\ newTime >= total
        THEN currentTime' = 0 /\ isPlaying' = FALSE
        ELSE currentTime' = newTime /\ UNCHANGED isPlaying
  /\ UNCHANGED <<screens, scenes, selectedSceneId, lastOp>>
  /\ transition' = commitTransitionEffects([transition EXCEPT !.now = @ + delta])
  /\ UNCHANGED <<hookVars, exportVars, modalVars, cameraVars, layers, mounted,
                 animationFrame, handlers>>

\* delta ms pass while the preview is paused
waitFor(delta) ==
  /\ ~isPlaying
  /\ transition.now + delta <= MaxClock
  /\ NoTimerDue(transition, transition.now + delta)
  /\ transition' = [transition EXCEPT !.now = @ + delta]
  /\ UNCHANGED <<storeVars, lastOp, hookVars, exportVars, modalVars, cameraVars,
                 layers, mounted, animationFrame, handlers>>

\* a setTimeout callback of the scene-change effect (158-165) runs
transitionTimerFires ==
  /\ \E due \in transition.timers :
       /\ due <= transition.now
       /\ transition' = [transition EXCEPT !.transitionState = NotTransitioning,
                                           !.timers = @ \ {due}]
  /\ UNCHANGED <<storeVars, lastOp, hookVars, exportVars, modalVars, cameraVars,
                 layers, mounted, animationFrame, handlers>>

NextTransition ==
  \/ InPreview(~isPlaying /\ addSceneFromScreen(<<"img", "thumb">>))
  \/ InPreview(~isPlaying /\ play)
  \/ InPreview(isPlaying /\ pause)
  \/ InPreview(\E t \in TransitionSeeks : handleSeek(t))
  \/ \E delta \in ClockSteps : playFor(delta)
  \/ \E delta \in ClockSteps : waitFor(delta)
  \/ transitionTimerFires

SpecTransition == Init /\ [][NextTransition]_vars

\* ------------------------------------------------------------ the claims
PositiveDurations == \A i \in DOMAIN scenes : scenes[i].duration > 0
TotalDuration == SumDurations(scenes)
\* the start of the scene at position i: the durations before it
StartOf(i) == SumDurations(SubSeq(scenes, 1, i - 1))
InUnitInterval(p) == p.den > 0 /\ 0 <= p.num /\ p.num <= p.den
IsDangling(scene) == \A j \in DOMAIN screens : screens[j].id # scene.screenId
\* scenes in ascending `order`, ties in list order
SortByOrder(scs) == StableSortBy(scs, LAMBDA sc : sc.order)

\* C1: on a non-empty scene list with positive durations, every resolver
\* returns, for every time, a scene of the list (an index in [0, sceneCount))
\* and a progress in [0,1]; a time <= 0 gives the first scene at progress 0, a
\* time >= totalDuration the last scene at progress 1.
C1_ResolversStayInRange ==
  (scenes # << >> /\ PositiveDurations) =>
    \A t \in ResolveTimes :
      LET r == getSceneAtTime(scenes, screens, t)
          c == useCameraRendererProps(scenes, t)
          k == useCinematicRendererProps(scenes, t)
      IN /\ \E i \in DOMAIN scenes : r.scene = scenes[i]
         /\ c.currentSceneIndex \in 0..(Len(scenes) - 1)
         /\ k.currentSceneIndex \in 0..(Len(scenes) - 1)
         /\ InUnitInterval(r.sceneProgress)
         /\ InUnitInterval(c.sceneProgress)
         /\ InUnitInterval(k.sceneProgress)
         /\ (t <= 0 =>
               /\ r.scene = scenes[1] /\ r.sceneProgress.num = 0
               /\ c.currentSceneIndex = 0 /\ c.sceneProgress.num = 0
               /\ k.currentSceneIndex = 0 /\ k.sceneProgress.num = 0)
         /\ (t >= TotalDuration =>
               /\ r.scene = scenes[Len(scenes)]
               /\ r.sceneProgress.num = r.sceneProgress.den
               /\ c.currentSceneIndex = Len(scenes) - 1
               /\ c.sceneProgress.num = c.sceneProgress.den
               /\ k.currentSceneIndex = Len(scenes) - 1
               /\ k.sceneProgress.num = k.sceneProgress.den)

C1_Witness ==
  /\ Len(scenes) = 2
  /\ PositiveDurations
  /\ TotalDuration = 6000
  /\ getSceneAtTime(scenes, screens, 6000).scene = scenes[2]
  /\ getSceneAtTime(scenes, screens, 6000).sceneProgress = Progress(1, 1)
  /\ useCameraRendererProps(scenes, -500) =
       [currentSceneIndex |-> 0, sceneProgress |-> Progress(0, 1)]

\* C2: for 0 <= time < totalDuration exactly one scene i has
\* start_i <= time < start_i + duration_i, and every resolver returns it, with
\* sceneTime = time - start_i and sceneProgress = (time - start_i)/duration_i.
C2_ResolverFindsTheActiveScene ==
  \A t \in ResolveTimes :
    (0 <= t /\ t < TotalDuration) =>
      /\ Cardinality({i \in DOMAIN scenes :
                        StartOf(i) <= t /\ t < StartOf(i) + scenes[i].duration}) = 1
      /\ \A i \in DOMAIN scenes :
           (StartOf(i) <= t /\ t < StartOf(i) + scenes[i].duration) =>
             LET r == getSceneAtTime(scenes, screens, t)
                 c == useCameraRendererProps(scenes, t)
                 k == useCinematicRendererProps(scenes, t)
                 progress == Progress(t - StartOf(i), scenes[i].duration)
             IN /\ r.scene = scenes[i]
                /\ r.sceneTime = t - StartOf(i)
                /\ r.sceneStartTime = StartOf(i)
                /\ r.sceneProgress = progress
                /\ c = [currentSceneIndex |-> i - 1, sceneProgress |-> progress]
                /\ k = [currentSceneIndex |-> i - 1, sceneProgress |-> progress]

C2_Witness ==
  /\ Len(scenes) = 2
  /\ scenes[1].duration = 2000
  /\ scenes[2].duration = 3000
  /\ getSceneAtTime(scenes, screens, 2500).scene = scenes[2]
  /\ getSceneAtTime(scenes, screens, 2500).sceneTime = 500
  /\ useCinematicRendererProps(scenes, 2500) =
       [currentSceneIndex |-> 1, sceneProgress |-> Progress(500, 3000)]

\* C4: after any sequence of store mutations the scenes' order values are
\* exactly {0, ..., sceneCount-1}: no gap, no duplicate.
C4_OrdersAreContiguous ==
  /\ {scenes[i].order : i \in DOMAIN scenes} = 0..(Len(scenes) - 1)
  /\ \A i, j \in DOMAIN scenes : scenes[i].order = scenes[j].order => i = j

\* C5: after reorderScenes and after removeScene the scene at list position i
\* (zero-based) has order i.
C5_OrderIsPositionAfterReorderOrRemove ==
  lastOp \in {"reorderScenes", "removeScene"} =>
    \A i \in DOMAIN scenes : scenes[i].order = i - 1

C5_Witness ==
  /\ lastOp = "reorderScenes"
  /\ Len(scenes) = 2
  /\ scenes[1].id > scenes[2].id
  /\ scenes[1].order = 0
  /\ scenes[2].order = 1

\* C6: on a scene list with positive durations, the scene a resolver returns
\* for a time, and the scene entries an export is built from, are those of the
\* scene list sorted by `order`.
C6_ResolversWalkInOrderOfOrderField ==
  PositiveDurations =>
    /\ \A t \in ResolveTimes :
         getSceneAtTime(scenes, screens, t).scene =
           getSceneAtTime(SortByOrder(scenes), screens, t).scene
    /\ handleExportSceneData(scenes, screens) =
         handleExportSceneData(SortByOrder(scenes), screens)

\* C7: at every playback tick the total duration the tick compares the new
\* time against is the sum of the durations of the scenes in the store.
C7_TickComparesAgainstCurrentTotal ==
  tick.ran => tick.duration = tick.total

\* C8: after removeScene and after removeScreen, selectedSceneId is null or
\* the id of a scene of the project.
C8_NoDanglingSelectionAfterRemoval ==
  lastOp \in {"removeScene", "removeScreen"} =>
    \/ selectedSceneId = NULL
    \/ \E i \in DOMAIN scenes : scenes[i].id = selectedSceneId

\* C9: a scene whose screenId names no screen adds no entry to an export (the
\* export is the one of the project without that scene) and is drawn by
\* neither preview renderer, whichever scene is current.
C9_DanglingScenesAreNotRendered ==
  /\ handleExportSceneData(scenes, screens) =
       handleExportSceneData(Filter(scenes, LAMBDA sc : ~IsDangling(sc)), screens)
  /\ \A i \in DOMAIN scenes :
       IsDangling(scenes[i]) =>
         /\ \A cur \in 0..(Len(scenes) - 1) :
              (i - 1) \notin CameraSceneRendererLayers(scenes, screens, cur)
         /\ CinematicRendererShown(scenes, screens, i - 1) = NoScene
         /\ getSceneAtTime(scenes, screens, StartOf(i)).screen = NoScreen
              \/ getSceneAtTime(scenes, screens, StartOf(i)).scene # scenes[i]

C9_Witness ==
  /\ Len(scenes) = 2
  /\ IsDangling(scenes[1])
  /\ ~IsDangling(scenes[2])
  /\ Len(handleExportSceneData(scenes, screens)) = 1
  /\ CameraSceneRendererLayers(scenes, screens, 0) = {1}

\* C10: after any sequence of store mutations every scene's duration is a
\* positive number of milliseconds.
C10_DurationsArePositive ==
  \A i \in DOMAIN scenes : scenes[i].duration > 0

\* the export's scenes with their durations in the frame loop's units
ScenesInUnits(ex) ==
  [i \in DOMAIN ex.scenes |-> [ex.scenes[i] EXCEPT !.duration = Units(ex, @)]]

\* the start (in units) of scene i (one-based) of the export's scene list
ExportStartOf(ex, i) == Units(ex, SumDurations(SubSeq(ex.scenes, 1, i - 1)))

\* the stages after the frame loop of an export that has not failed
AfterFrameLoop == {"stopping", "gifRender", "ffmpegLoad", "transcode", "done"}

\* C11: exportScenesAsVideo with an empty scene list fails with the 'no
\* scenes' error, with no image load started and no canvas, recorder or
\* encoder created, whatever the format.
C11_EmptyExportFailsFirst ==
  (export.stage # "idle" /\ export.scenes = << >>) =>
    /\ export.stage = "failed"
    /\ export.error = NoScenesError
    /\ export.loadsStarted = 0
    /\ export.created = {}
    /\ export.recorder = "none"
    /\ export.frames = << >>
    /\ export.blob = "none"

C11_Witness ==
  /\ export.stage = "failed"
  /\ export.scenes = << >>
  /\ export.format = "mp4"
  /\ export.error = NoScenesError
  /\ ffmpeg.loaded

\* C12: while images are loading no frame has been drawn (or added to the
\* GIF) and the recorder has not been started; frames exist and the recorder
\* runs only once every scene's image has loaded; an export one of whose
\* images fails to load ends failed with no frame and no blob.
C12_LoadingCompletesBeforeEncoding ==
  /\ export.stage = "loading" =>
       /\ export.frames = << >>
       /\ export.recorder \notin {"recording", "stopped"}
  /\ (export.frames # << >> \/ export.recorder \in {"recording", "stopped"}) =>
       export.images = Len(export.scenes)
  /\ export.failedAt = "loading" =>
       /\ export.stage = "failed"
       /\ export.frames = << >>
       /\ export.blob = "none"
  /\ (\E i \in DOMAIN export.scenes : ~loadImage(export.scenes[i].imageUrl)) =>
       /\ export.stage \in {"loading", "failed"}
       /\ export.frames = << >>
       /\ export.blob = "none"

C12_Witness ==
  /\ export.stage = "failed"
  /\ export.failedAt = "loading"
  /\ Len(export.scenes) = 3
  /\ export.images = 2
  /\ export.format = "gif"

\* C13: the k-th frame (k = 0, 1, ...) is drawn for time k * frameDuration
\* (frameDuration = 1000/fps ms, 1000/min(fps,15) ms for a GIF), so the frame
\* times increase strictly; every frame time is below totalDuration; and once
\* the frame loop is over exactly ceil(totalDuration / frameDuration) frames
\* were drawn.
C13_FramesInTimelineOrder ==
  LET total == Units(export, SumDurations(export.scenes))
      ceiling == CHOOSE n \in 0..total :
                   n * frameDuration >= total /\ (n = 0 \/ (n - 1) * frameDuration < total)
  IN /\ \A k \in DOMAIN export.frames :
          /\ export.frames[k].time = (k - 1) * frameDuration
          /\ export.frames[k].time < total
          /\ k > 1 => export.frames[k - 1].time < export.frames[k].time
     /\ frameRate(export) =
          (IF export.format = "gif" /\ export.fps > GIF_MAX_FPS
           THEN GIF_MAX_FPS ELSE export.fps)
     /\ Len(export.frames) <= ceiling
     /\ export.stage \in AfterFrameLoop => Len(export.frames) = ceiling

C13_Witness ==
  /\ export.stage = "done"
  /\ export.format = "gif"
  /\ export.fps = 60
  /\ SumDurations(export.scenes) = 820
  /\ Len(export.frames) = 13

\* C14: for every frame of an export, the scene index and the scene-local
\* time the frame loop has advanced to are the ones the timeline resolver
\* returns for the frame's time on the export's scene list.
C14_ExportLoopAgreesWithResolver ==
  \A k \in DOMAIN export.frames :
    LET frame == export.frames[k]
        resolved == useCameraRendererProps(ScenesInUnits(export), frame.time)
    IN /\ frame.currentSceneIndex = resolved.currentSceneIndex
       /\ frame.sceneTime = resolved.sceneProgress.num
       /\ Units(export, export.scenes[frame.currentSceneIndex + 1].duration) =
            resolved.sceneProgress.den

\* a frame whose scene was reached by skipping a scene that no frame fell in
C14_Witness ==
  /\ export.format = "gif"
  /\ Len(export.scenes) = 3
  /\ export.scenes[1].duration = 20
  /\ export.scenes[2].duration = 20
  /\ Len(export.frames) >= 2
  /\ export.frames[1].currentSceneIndex = 0
  /\ export.frames[2].currentSceneIndex = 2

\* C15: a frame is drawn as a two-image transition frame exactly when its
\* time is less than 300 ms after the start of a scene that is not the first,
\* or less than 300 ms before the end of a scene that is not the last; every
\* other frame is drawn as a single-image frame.
C15_TransitionFramesOnlyBetweenScenes ==
  \A k \in DOMAIN export.frames :
    LET frame == export.frames[k]
        n == Len(export.scenes)
        window == Units(export, 300)
        InScene(i) == /\ ExportStartOf(export, i) <= frame.time
                      /\ frame.time < ExportStartOf(export, i + 1)
        nearStart == \E i \in 2..n :
                       InScene(i) /\ frame.time - ExportStartOf(export, i) < window
        nearEnd == \E i \in 1..(n - 1) :
                     InScene(i) /\ ExportStartOf(export, i + 1) - frame.time < window
    IN /\ frame.draw \in {"drawTransitionFrame", "drawSceneFrame"}
       /\ frame.draw = "drawTransitionFrame" <=> (nearStart \/ nearEnd)
       /\ Len(frame.images) = (IF nearStart \/ nearEnd THEN 2 ELSE 1)

\* a single-image first frame, a transition in between, a single-image last frame
C15_Witness ==
  /\ export.stage = "done"
  /\ Len(export.scenes) = 2
  /\ export.scenes[1].duration = 400
  /\ export.scenes[2].duration = 400
  /\ export.fps = 30
  /\ export.format = "webm"
  /\ export.frames[1].draw = "drawSceneFrame"
  /\ export.frames[4].draw = "drawSceneFrame"
  /\ export.frames[5].draw = "drawTransitionFrame"
  /\ export.frames[13].draw = "drawTransitionFrame"
  /\ export.frames[22].draw = "drawSceneFrame"
  /\ export.frames[Len(export.frames)].draw = "drawSceneFrame"

\* C16: for every pair of adjacent scenes of the project, the length of the
\* transition the preview runs between them is the 300 ms the export uses.
C16_PreviewTransitionIsTheExportTransition ==
  \A i \in DOMAIN scenes :
    i < Len(scenes) =>
      previewTransitionDuration(scenes[i + 1], scenes[i]) = TRANSITION_DURATION

\* p <= q for two percentages
LessEq(p, q) == p.num * q.den <= q.num * p.den

\* C17: in every export the values passed to onProgress lie in [0,100] and
\* never decrease, and an export that succeeded reported 100 last, whether
\* FFmpeg was loaded during the export or before it.
C17_ProgressNeverMovesBack ==
  /\ \A k \in DOMAIN export.progress :
       /\ export.progress[k].den > 0
       /\ LessEq(Percent(0, 1), export.progress[k])
       /\ LessEq(export.progress[k], Percent(100, 1))
       /\ k > 1 => LessEq(export.progress[k - 1], export.progress[k])
  /\ export.stage = "done" =>
       /\ export.progress # << >>
       /\ export.progress[Len(export.progress)] = Percent(100, 1)

\* an MP4 export that succeeded on an FFmpeg loaded by an earlier export,
\* with all its progress events
C17_Witness ==
  /\ export.stage = "done"
  /\ export.blob = "mp4"
  /\ "ffmpeg" \notin export.created
  /\ export.encoderProgress = 2
  /\ Len(export.scenes) = 2

\* C18: a failed export reports the 'try WebM' error exactly when it is an
\* MP4 export whose transcode stage failed; a failed image load is reported
\* as the image-load error and a missing capability as the unsupported-format
\* error, in every format.
C18_EachFailureHasItsOwnError ==
  export.stage = "failed" =>
    /\ export.error = TryWebMError <=>
         (export.format = "mp4" /\ export.failedAt = "transcode")
    /\ export.failedAt = "loading" => export.error = ImageLoadError
    /\ export.failedAt = "capability" => export.error = UnsupportedError

\* C19: an export that failed returned no blob, left no recorder recording
\* and left no file in the FFmpeg file system.
C19_FailureReleasesResources ==
  export.stage = "failed" =>
    /\ export.blob = "none"
    /\ export.recorder # "recording"
    /\ ffmpeg.files = {}

\* C20: on a host without WebM VP9 support a WebM or MP4 export has failed as
\* soon as it was called, with no image load started and no frame drawn.
C20_UnsupportedHostFailsBeforeLoading ==
  (export.stage # "idle" /\ ~export.vp9 /\ export.format \in {"webm", "mp4"}) =>
    /\ export.stage = "failed"
    /\ export.loadsStarted = 0
    /\ export.images = 0
    /\ export.frames = << >>
    /\ export.recorder = "none"
    /\ export.blob = "none"

C20_Witness ==
  /\ export.stage = "failed"
  /\ export.failedAt = "capability"
  /\ ~export.vp9
  /\ export.format = "mp4"
  /\ Len(export.scenes) = 3

\* C21: in every format the frame loop suspends exactly once after each
\* frame it draws: a frame is drawn after one more suspension than the frame
\* before it, and once the loop is over it has suspended as many times as it
\* drew frames.
C21_OneYieldAfterEachFrame ==
  /\ \A k \in 1..(Len(export.frames) - 1) :
       export.frames[k + 1].yields = export.frames[k].yields + 1
  /\ export.stage \in AfterFrameLoop => export.yields = Len(export.frames)

\* the modals whose convertToMP4 has called writeFile and has not yet
\* returned or thrown
InTranscode ==
  {m \in Modals :
     convert[m].pc \in {"writeFile", "exec", "readFile", "deleteInput", "deleteOutput"}}

\* C22: the engine is constructed at most once and its load started at most
\* once; a caller that waits for a load waits for that one load, and every
\* caller that was handed an engine was handed that one instance.
C22_EngineIsMadeAndLoadedOnce ==
  /\ ffmpeg.instances <= 1
  /\ ffmpeg.loads <= 1
  /\ \A m \in Modals :
       /\ convert[m].awaits # 0 => convert[m].awaits = 1 /\ ffmpeg.loads = 1
       /\ convert[m].engine # 0 =>
            convert[m].engine = 1 /\ ffmpeg.loaded /\ ffmpeg.loads = 1

\* two callers wait for the same pending load
C22_Witness ==
  /\ \A m \in Modals : convert[m].pc = "getFFmpeg" /\ convert[m].awaits = 1
  /\ ffmpeg.loading = "pending"
  /\ ffmpeg.instances = 1
  /\ ffmpeg.loads = 1

\* C23: at most one modal's writeFile/exec/readFile/deleteFile sequence is
\* under way on the engine at any time.
C23_OneTranscodeInFlight == Cardinality(InTranscode) <= 1

\* C24: a GIF export draws at width min(width, 800), height
\* round(outputWidth * height / width) and min(fps, 15) frames per second
\* (1920x1080 gives 800x450, a width of 800 or less stays), and these are the
\* dimensions and the frame rate the modal showed.
C24_GifSizeIsClampedAndShown ==
  (modal.options.format = "gif") =>
    LET w == modal.options.width
        h == modal.options.height
        outputWidth == IF w > 800 THEN 800 ELSE w
    IN /\ modal.canvas.width = outputWidth
       /\ modal.canvas.height = (2 * outputWidth * h + w) \div (2 * w)
       /\ modal.canvas.fps = (IF modal.options.fps > 15 THEN 15 ELSE modal.options.fps)
       /\ (w = 1920 /\ h = 1080) =>
            (modal.canvas.width = 800 /\ modal.canvas.height = 450)
       /\ w <= 800 => (modal.canvas.width = w /\ modal.canvas.height = h)
       /\ modal.shown = modal.canvas

C24_Witness ==
  /\ modal.isExporting
  /\ modal.options = [width |-> 1920, height |-> 1080, fps |-> 60, format |-> "gif"]
  /\ modal.canvas = [width |-> 800, height |-> 450, fps |-> 15]
  /\ modal.shown = modal.canvas

\* C25: the file a successful export downloads has the MIME type and the
\* extension of the selected format.
C25_DownloadHasTheSelectedFormat ==
  modal.download # NoFile =>
    /\ modal.download.type =
         (CASE modal.options.format = "webm" -> "video/webm"
            [] modal.options.format = "mp4" -> "video/mp4"
            [] modal.options.format = "gif" -> "image/gif")
    /\ modal.download.extension = modal.options.format

\* both camera states of the preview have been computed
BothComputed == preview.hook # NoCameraState /\ preview.renderer # NoCameraState
\* the scene the preview is at, and whether it is the last one
PreviewScene == preview.scenes[preview.currentSceneIndex + 1]
AtLastScene == preview.currentSceneIndex = Len(preview.scenes) - 1

\* C26: each calculator gives 'enter' exactly when progress < 0.2, 'exit'
\* exactly when progress > 0.8 and 'hold' otherwise (so at 0.2 and at 0.8),
\* and the two give the same phase.
C26_PhasesAreClassifiedAlike ==
  BothComputed =>
    LET p == preview.sceneProgress
        expected == IF p < 20 THEN "enter" ELSE IF p > 80 THEN "exit" ELSE "hold"
    IN /\ preview.renderer.transitionPhase = expected
       /\ preview.hook.transitionPhase = expected
       /\ p \in {20, 80} => preview.renderer.transitionPhase = "hold"

C26_Witness ==
  /\ BothComputed
  /\ preview.sceneProgress = 20
  /\ preview.renderer.transitionPhase = "hold"
  /\ preview.hook.transitionPhase = "hold"

\* the offsets of a scene's camera, 0 and 0 without one
OffsetsOf(scene) ==
  IF scene.camera = NoCamera THEN DEFAULT_SECTION_CAMERA ELSE scene.camera

\* C28: while the last scene exits (progress > 0.8, up to 1) both
\* calculators keep the camera at the scene's own offsets.
C28_LastSceneHoldsItsOffset ==
  (BothComputed /\ AtLastScene /\ preview.sceneProgress > 80) =>
    /\ preview.renderer.targetX = OffsetsOf(PreviewScene).moveOffsetX * EaseUnit
    /\ preview.renderer.targetY = OffsetsOf(PreviewScene).moveOffsetY * EaseUnit
    /\ preview.hook.targetX = OffsetsOf(PreviewScene).moveOffsetX * EaseUnit
    /\ preview.hook.targetY = OffsetsOf(PreviewScene).moveOffsetY * EaseUnit

\* C29: in the renderer the entering formula at progress 0.2 and the exiting
\* formula at progress 0.8 both give the holding offset, which is what the
\* renderer returns at 0.2 and at 0.8.
C29_NoJumpAtPhaseBoundaries ==
  (preview.renderer # NoCameraState /\ PreviewScene.camera # NoCamera) =>
    LET own == PreviewScene.camera
        next == IF AtLastScene THEN [moveOffsetX |-> 0, moveOffsetY |-> 0]
                ELSE OffsetsOf(preview.scenes[preview.currentSceneIndex + 2])
    IN /\ rendererEnterOffset(own.moveOffsetX, 20) = rendererHoldOffset(own.moveOffsetX)
       /\ rendererEnterOffset(own.moveOffsetY, 20) = rendererHoldOffset(own.moveOffsetY)
       /\ rendererExitOffset(own.moveOffsetX, next.moveOffsetX, 80) =
            rendererHoldOffset(own.moveOffsetX)
       /\ rendererExitOffset(own.moveOffsetY, next.moveOffsetY, 80) =
            rendererHoldOffset(own.moveOffsetY)
       /\ preview.sceneProgress \in {20, 80} =>
            /\ preview.renderer.targetX = rendererHoldOffset(own.moveOffsetX)
            /\ preview.renderer.targetY = rendererHoldOffset(own.moveOffsetY)

C29_Witness ==
  /\ preview.renderer # NoCameraState
  /\ preview.sceneProgress = 80
  /\ Len(preview.scenes) = 2
  /\ preview.currentSceneIndex = 0
  /\ preview.scenes[1].camera = [moveOffsetX |-> -200, moveOffsetY |-> 200]
  /\ preview.scenes[2].camera = [moveOffsetX |-> 200, moveOffsetY |-> 0]
  /\ preview.renderer.targetX = -200 * EaseUnit
  /\ preview.renderer.targetY = 200 * EaseUnit

\* C30: for the same scenes, index and progress the playback hook and the
\* camera renderer return the same targetX and targetY.
C30_CalculatorsAgree ==
  BothComputed =>
    /\ preview.hook.targetX = preview.renderer.targetX
    /\ preview.hook.targetY = preview.renderer.targetY

\* C27: whatever the store did to the scene positions and to the spacing,
\* the camera's target Z for the scene at list position i is
\* -i * (current zSpacing), in both calculators.
C27_TargetZFollowsPositionAndSpacing ==
  \A i \in DOMAIN scenes :
    /\ rendererGetCameraState(ScenesWithDepth, i - 1, 50, zSpacing).targetZ =
         -(i - 1) * zSpacing
    /\ hookGetCameraState(ScenesWithDepth, i - 1, 50, zSpacing).targetZ =
         -(i - 1) * zSpacing

\* two finite numbers are the same number
SameNumber(a, b) ==
  a.kind = "finite" /\ b.kind = "finite" /\ a.num * b.den = b.num * a.den
\* a finite number lies in [lo, hi]
Within(x, lo, hi) ==
  /\ x.kind = "finite"
  /\ lo.num * x.den <= x.num * lo.den
  /\ x.num * hi.den <= hi.num * x.den
\* the layers of the last render
RenderedLayers ==
  IF layers.sectionLayers = NoLayers THEN {}
  ELSE {layers.sectionLayers.layer[i] : i \in DOMAIN layers.sectionLayers.layer}

\* C31: for every distance, zSpacing > 0, aperture in [1, 10] and maxBlur in
\* [0, 20], calculateBlur returns a value in [0, maxBlur]: 0 when depth of
\* field is disabled, |distance| / zSpacing * aperture * maxBlur when that is
\* at most maxBlur, maxBlur otherwise; aperture 2, maxBlur 8, zSpacing 700
\* and distance 700 give 8.
C31_BlurIsClamped ==
  /\ SameNumber(calculateBlur(700, 700, 20, 8, TRUE), Finite(8, 1))
  /\ \A i \in DOMAIN layers.blurs :
       LET call == layers.blurs[i]
           spacing == layers.globalCamera.zSpacing
           dof == layers.dof
           product == MathAbs(call.distance) * dof.aperture * dof.maxBlur
           limit == dof.maxBlur * spacing * 10
       IN spacing > 0 =>
            /\ Within(call.blur, Finite(0, 1), Finite(dof.maxBlur, 1))
            /\ ~dof.enabled => SameNumber(call.blur, Finite(0, 1))
            /\ dof.enabled /\ product <= limit =>
                 SameNumber(call.blur, Finite(product, spacing * 10))
            /\ dof.enabled /\ product > limit =>
                 SameNumber(call.blur, Finite(dof.maxBlur, 1))
  /\ layers.globalCamera.zSpacing > 0 =>
       \A layer \in RenderedLayers :
         Within(layer.blur, Finite(0, 1), Finite(layers.dof.maxBlur, 1))

\* calculateBlur was called with depth of field enabled and a distance whose
\* unclamped blur is above maxBlur, and a layer stack was rendered elsewhere
C31_Witness ==
  /\ Len(layers.blurs) = 1
  /\ layers.dof.enabled
  /\ layers.dof.maxBlur > 0
  /\ MathAbs(layers.blurs[1].distance) * layers.dof.aperture
       > layers.globalCamera.zSpacing * 10
  /\ SameNumber(layers.blurs[1].blur, Finite(layers.dof.maxBlur, 1))

\* C32: with zSpacing = 0 every rendered layer has blur 0 and an opacity
\* that is a number in [0.4, 1]; with zSpacing > 0 every rendered layer's
\* opacity is max(0.4, 1 - |distance| / (2 * zSpacing) * 0.3), in [0.4, 1].
C32_DepthMetricsAreDefined ==
  \A layer \in RenderedLayers :
    LET spacing == layers.globalCamera.zSpacing
        distance == MathAbs(layer.distanceFromFocus)
    IN /\ Within(layer.opacity, Finite(4, 10), Finite(1, 1))
       /\ spacing = 0 => SameNumber(layer.blur, Finite(0, 1))
       /\ spacing > 0 /\ Len(layers.scenes) > 1 =>
            IF 3 * distance <= 12 * spacing
            THEN SameNumber(layer.opacity,
                            Finite(20 * spacing - 3 * distance, 20 * spacing))
            ELSE SameNumber(layer.opacity, Finite(4, 10))

\* C33: while playing, once the callbacks of an animation frame have run
\* the playhead is where it was when the frame began plus the time since the
\* previous frame (plus 0 on the first frame after play), with usePlayback()
\* mounted by Canvas and by Timeline and whenever the ref-refreshing effects
\* run.
C33_PlayheadMovesByTheFrameDelta ==
  /\ animationFrame.ran
  /\ animationFrame.callbacks = {}
  /\ animationFrame.playing
  /\ animationFrame.continued
  => currentTime = animationFrame.startTime + animationFrame.elapsed

C35_EveryExportSettles ==
  (export.stage # "idle") ~> (export.stage \in {"done", "failed"})

\* C36: the playhead stays on the timeline: after timeline and keyboard
\* seeks, playback ticks and edits of the scene list,
\* 0 <= currentTime <= totalDuration.
C36_PlayheadOnTheTimeline ==
  0 <= currentTime /\ currentTime <= useTotalDuration(scenes)

\* C37: while playback continues, a transition started by a scene change
\* lasts its full length: until max(entryDuration, exitDuration) ms after the
\* scene change, transitionState is {isTransitioning: true, previousScene:
\* the scene just left}.
C37_TransitionLastsItsLength ==
  /\ transition.started.watching
  /\ isPlaying
  /\ transition.now < transition.started.at + transition.started.length
  => /\ transition.transitionState.isTransitioning
     /\ transition.transitionState.previousScene = transition.started.left

\* C38: across a scene boundary of an export the cross-fade runs once and
\* forward: from one transition frame to the next one between the same two
\* images, the alpha the incoming image is drawn with never decreases, and
\* the outgoing image is drawn only while progress < 0.5, with alpha
\* 1 - eased.
C38_CrossFadeRunsForward ==
  \A k \in 1..(Len(export.frames) - 1) :
    LET f == export.frames[k]
        g == export.frames[k + 1]
    IN /\ f.draw = "drawTransitionFrame"
       /\ g.draw = "drawTransitionFrame"
       /\ f.images = g.images
       => LET a == drawTransitionFrame(export, f)
              b == drawTransitionFrame(export, g)
          IN /\ a.imgTo.alpha <= b.imgTo.alpha
             /\ a.imgFrom.drawn <=> 2 * a.progress < transitionUnits(export)
             /\ a.imgFrom.drawn => a.imgFrom.alpha + a.imgTo.alpha = alphaUnits(export)

\* C39: once an export has settled, its onProgress callback is never invoked
\* again, also during later MP4 exports that reuse the cached engine.
C39_NoProgressAfterSettling ==
  handlers.late = {}

\* C40: an export from the modal that fails downloads no file, ends with
\* isExporting false and shows the error message; on every exit path of
\* handleExport, success or failure, isExporting ends false.
C40_FailedExportShowsTheError ==
  /\ modal.outcome = "rejected" =>
       /\ modal.download = NoFile
       /\ ~modal.isExporting
       /\ modal.exportError # NoError
  /\ modal.outcome = "closed" => ~modal.isExporting
  /\ modal.isExporting <=> modal.outcome \in {"pending", "downloaded"}
  /\ modal.exportError # NoError => modal.outcome = "rejected"

C40_Witness ==
  /\ modal.outcome = "rejected"
  /\ modal.options.format = "mp4"
  /\ modal.exportError = TryWebMError
  /\ ~modal.isExporting

====
